---- MODULE Spec2Model ----
(***************************************************************************)
(* Sharetribe transaction process visualizer.                              *)
(*                                                                         *)
(* The pipeline of the client: parseEdn (client/src/lib/edn-parser.ts)     *)
(* scans the EDN text with regular expressions and bracket counters,       *)
(* generateGraphData (lib/graph-generator) turns the parsed process into   *)
(* ReactFlow nodes and edges and lays the nodes out with a breadth-first   *)
(* traversal, and the Home page (pages/home.tsx) keeps the text, the       *)
(* graph and the error message.                                            *)
(*                                                                         *)
(* Text is a sequence of lexemes.  A lexeme is a piece of text that the    *)
(* regular expressions of the parser never look into: one whitespace or    *)
(* punctuation character (" ", "\n", "{", "}", "[", "]", "#", ",", ";",    *)
(* ":"), a namespace prefix with its slash ("state/", "transition/", ...)  *)
(* or a name ("to", "from", "a", "customer", ...).  The keyword :state/a   *)
(* is the three lexemes ":", "state/", "a".  A string value of the program *)
(* (a state id, an actor, an edge id) is kept as the sequence of lexemes   *)
(* that spells it: <<"a">> is the string a, <<>> the empty string.  No     *)
(* lexeme is spelled by a sequence of other lexemes, so two values are the *)
(* same string exactly when they are the same sequence.                    *)
(***************************************************************************)
EXTENDS Naturals, Integers, Sequences, FiniteSets, TLC

\* ------------------------------------------------------------------
\* Regular-expression primitives over lexeme sequences
\* ------------------------------------------------------------------

\* The characters matched by \s (and by \n) in the parser's patterns.
WS == {" ", "\n"}

NoMatch == [found |-> FALSE, val |-> <<>>]
Match(v) == [found |-> TRUE, val |-> v]

MinOf(S) == CHOOSE x \in S : \A y \in S : x <= y
MaxOf(S) == CHOOSE x \in S : \A y \in S : x >= y

\* The literal lit occurs in t at index i.
LitAt(t, i, lit) ==
  /\ i >= 1
  /\ i + Len(lit) - 1 <= Len(t)
  /\ \A k \in 1..Len(lit) : t[i + k - 1] = lit[k]

\* String.prototype.includes
Includes(t, lit) == \E i \in 1..Len(t) : LitAt(t, i, lit)

\* The index of the first lexeme at or after i that is in stop (Len(t)+1 if none):
\* where a greedy [^stop]* that starts at i ends.
RunEnd(t, i, stop) ==
  LET S == {k \in i..Len(t) : t[k] \in stop}
  IN  IF S = {} THEN Len(t) + 1 ELSE MinOf(S)

\* Where a greedy \s* that starts at i ends.
SkipWs(t, i) ==
  LET S == {k \in i..Len(t) : t[k] \notin WS}
  IN  IF S = {} THEN Len(t) + 1 ELSE MinOf(S)

\* One attempt, at index i, of the pattern  key\s+:([^stop]+)
KeywordAt(t, i, key, stop) ==
  LET j == i + Len(key)
      k == SkipWs(t, j)
      e == RunEnd(t, k + 1, stop)
  IN  IF LitAt(t, i, key) /\ k > j /\ k <= Len(t) /\ t[k] = ":" /\ e > k + 1
      THEN Match(SubSeq(t, k + 1, e - 1))
      ELSE NoMatch

\* String.prototype.match with the pattern  key\s+:([^stop]+) : the leftmost
\* match, its capture group.
MatchKeyword(t, key, stop) ==
  LET S == {i \in 1..Len(t) : KeywordAt(t, i, key, stop).found}
  IN  IF S = {} THEN NoMatch ELSE KeywordAt(t, MinOf(S), key, stop)

RECURSIVE SortedSeq(_)
\* The elements of a finite set of numbers in increasing order.
SortedSeq(S) == IF S = {} THEN <<>> ELSE <<MinOf(S)>> \o SortedSeq(S \ {MinOf(S)})

\* split(/\s+/) followed by the filter every caller applies (s.trim() is
\* non-empty): the maximal runs of non-whitespace lexemes, in order.
SplitWs(t) ==
  LET starts == {i \in 1..Len(t) : t[i] \notin WS /\ (i = 1 \/ t[i - 1] \in WS)}
      order == SortedSeq(starts)
  IN  [n \in 1..Len(order) |-> SubSeq(t, order[n], RunEnd(t, order[n], WS) - 1)]

\* .filter(s => s.trim() && s.startsWith(':'))
KeywordTokens(t) == SelectSeq(SplitWs(t), LAMBDA tok : Head(tok) = ":")

\* s.replace(/^prefix/, '') on a captured lexeme sequence
StripPrefix(lex, prefix) ==
  IF lex # <<>> /\ Head(lex) = prefix THEN Tail(lex) ELSE lex

\* ednString.replace(/;.*$/gm, ''): a ";" and everything after it on its line
\* is removed, the line break is kept.
InComment(t, i) ==
  \E j \in 1..i : t[j] = ";" /\ \A k \in j..i : t[k] # "\n"

StripComments(t) ==
  IF \A i \in 1..Len(t) : t[i] # ";" THEN t
  ELSE LET indexed == [i \in 1..Len(t) |-> <<i, t[i]>>]
           kept == SelectSeq(indexed, LAMBDA p : ~InComment(t, p[1]))
       IN  [n \in 1..Len(kept) |-> kept[n][2]]

\* ------------------------------------------------------------------
\* edn-parser.ts: results and errors
\* ------------------------------------------------------------------

Ok(v) == [ok |-> TRUE, val |-> v, err |-> ""]
Throw(msg) == [ok |-> FALSE, val |-> <<>>, err |-> msg]

\* The keys the patterns name.
K_processId == <<":", "process/", "id">>
K_processStates == <<":", "process/", "states">>
K_processTransitions == <<":", "process/", "transitions">>
K_transitionId == <<":", "transition/", "id">>
K_transitionFrom == <<":", "transition/", "from">>
K_transitionTo == <<":", "transition/", "to">>
K_transitionActor == <<":", "transition/", "actor">>
K_transitionActions == <<":", "transition/", "actions">>
K_transitionNotifications == <<":", "transition/", "notifications">>
K_formatV3 == <<":", "format", " ", ":", "v3">>
K_transitions == <<":", "transitions">>
K_notifications == <<":", "notifications">>
K_name == <<":", "name">>
K_actor == <<":", "actor">>
K_to == <<":", "to">>
K_from == <<":", "from">>
K_actions == <<":", "actions">>

\* ------------------------------------------------------------------
\* edn-parser.ts: the legacy (v2) shape
\* ------------------------------------------------------------------

\* One attempt, at index i, of the pattern  key\s+#{([^}]+)}
SetAt(t, i, key) ==
  LET j == i + Len(key)
      k == SkipWs(t, j)
      e == RunEnd(t, k + 2, {"}"})
  IN  IF LitAt(t, i, key) /\ k > j /\ LitAt(t, k, <<"#", "{">>)
         /\ e > k + 2 /\ e <= Len(t)
      THEN Match(SubSeq(t, k + 2, e - 1))
      ELSE NoMatch

\* One attempt, at index i, of the pattern  key\s+\[([^\]]+)\]
VectorAt(t, i, key) ==
  LET j == i + Len(key)
      k == SkipWs(t, j)
      e == RunEnd(t, k + 1, {"]"})
  IN  IF LitAt(t, i, key) /\ k > j /\ k <= Len(t) /\ t[k] = "["
         /\ e > k + 1 /\ e <= Len(t)
      THEN Match(SubSeq(t, k + 1, e - 1))
      ELSE NoMatch

MatchVector(t, key) ==
  LET S == {i \in 1..Len(t) : VectorAt(t, i, key).found}
  IN  IF S = {} THEN NoMatch ELSE VectorAt(t, MinOf(S), key)

\* One attempt, at index i, of  :transition\/from\s+(#{[^}]+}|:[^\s\n]+) :
\* the set alternative first, then the single keyword.
FromAt(t, i) ==
  LET set == SetAt(t, i, K_transitionFrom)
      one == KeywordAt(t, i, K_transitionFrom, WS)
  IN  IF set.found THEN [found |-> TRUE, isSet |-> TRUE, val |-> set.val]
      ELSE IF one.found THEN [found |-> TRUE, isSet |-> FALSE, val |-> one.val]
      ELSE [found |-> FALSE, isSet |-> FALSE, val |-> <<>>]

MatchFrom(t) ==
  LET S == {i \in 1..Len(t) : FromAt(t, i).found}
  IN  IF S = {} THEN [found |-> FALSE, isSet |-> FALSE, val |-> <<>>]
      ELSE FromAt(t, MinOf(S))

\* .split(/\s+/).filter(startsWith(':')).map(s => s.substring(1).replace(/^prefix/, ''))
KeywordNames(content, prefix) ==
  LET toks == KeywordTokens(content)
  IN  [n \in 1..Len(toks) |-> StripPrefix(Tail(toks[n]), prefix)]

\* .split(/\s+/).filter(startsWith(':')).map(s => s.substring(1))
KeywordList(content) ==
  LET toks == KeywordTokens(content)
  IN  [n \in 1..Len(toks) |-> Tail(toks[n])]

\* parseTransition with a fault: a transition without :transition/from is
\* not refused but given the from state initial.
parseTransitionFromInitial(transitionText) ==
  LET idMatch == MatchKeyword(transitionText, K_transitionId, WS)
      fromMatch == MatchFrom(transitionText)
      toMatch == MatchKeyword(transitionText, K_transitionTo, WS)
      actorMatch == MatchKeyword(transitionText, K_transitionActor, WS)
      actionsMatch == MatchVector(transitionText, K_transitionActions)
      notificationsMatch == MatchVector(transitionText, K_transitionNotifications)
  IN  IF ~idMatch.found THEN Throw("Missing transition ID")
      ELSE IF ~toMatch.found THEN Throw("Missing transition to")
      ELSE IF ~actorMatch.found THEN Throw("Missing transition actor")
      ELSE Ok([id |-> idMatch.val,
               fromIsArray |-> fromMatch.found /\ fromMatch.isSet,
               from |-> IF ~fromMatch.found THEN <<<<"initial">>>>
                        ELSE IF fromMatch.isSet THEN KeywordList(fromMatch.val)
                        ELSE <<fromMatch.val>>,
               to |-> toMatch.val,
               actor |-> actorMatch.val,
               hasActions |-> actionsMatch.found,
               actions |-> IF actionsMatch.found
                           THEN KeywordNames(actionsMatch.val, "action/") ELSE <<>>,
               hasNotifications |-> notificationsMatch.found,
               notifications |-> IF notificationsMatch.found
                           THEN KeywordNames(notificationsMatch.val, "notification/")
                           ELSE <<>>])

\* parseTransition: a TransitionDefinition, or the error it throws.
\* 'transition/from' is a string or an array of strings: from holds the
\* array (a single string as a one-element array), fromIsArray which it was.
parseTransition(transitionText) ==
  LET idMatch == MatchKeyword(transitionText, K_transitionId, WS)
      fromMatch == MatchFrom(transitionText)
      toMatch == MatchKeyword(transitionText, K_transitionTo, WS)
      actorMatch == MatchKeyword(transitionText, K_transitionActor, WS)
      actionsMatch == MatchVector(transitionText, K_transitionActions)
      notificationsMatch == MatchVector(transitionText, K_transitionNotifications)
  IN  IF ~idMatch.found THEN Throw("Missing transition ID")
      ELSE IF ~fromMatch.found THEN Throw("Missing transition from")
      ELSE IF ~toMatch.found THEN Throw("Missing transition to")
      ELSE IF ~actorMatch.found THEN Throw("Missing transition actor")
      ELSE Ok([id |-> idMatch.val,
               fromIsArray |-> fromMatch.isSet,
               from |-> IF fromMatch.isSet THEN KeywordList(fromMatch.val)
                        ELSE <<fromMatch.val>>,
               to |-> toMatch.val,
               actor |-> actorMatch.val,
               hasActions |-> actionsMatch.found,
               actions |-> IF actionsMatch.found
                           THEN KeywordNames(actionsMatch.val, "action/") ELSE <<>>,
               hasNotifications |-> notificationsMatch.found,
               notifications |-> IF notificationsMatch.found
                           THEN KeywordNames(notificationsMatch.val, "notification/")
                           ELSE <<>>])

\* split(/(?=\s*{:transition\/id)/): the text is cut before every index (but
\* the first) at which  \s*{:transition/id  matches.
SplitTransitions(t) ==
  LET cuts == {q \in 2..Len(t) :
                 LitAt(t, SkipWs(t, q), <<"{">> \o K_transitionId)}
      order == SortedSeq({1} \cup cuts)
  IN  [n \in 1..Len(order) |->
         SubSeq(t, order[n], IF n < Len(order) THEN order[n + 1] - 1 ELSE Len(t))]

RECURSIVE CollectTransitions(_)
\* The loop of parseTransitions over the pieces: a piece that is blank or has
\* no :transition/id is passed over, a piece whose parseTransition throws is
\* skipped with a warning.
CollectTransitions(pieces) ==
  IF pieces = <<>> THEN <<>>
  ELSE LET transitionText == Head(pieces)
           rest == CollectTransitions(Tail(pieces))
           transition == parseTransition(transitionText)
       IN  IF (\A i \in 1..Len(transitionText) : transitionText[i] \in WS)
              \/ ~Includes(transitionText, K_transitionId)
           THEN rest
           ELSE IF transition.ok THEN <<transition.val>> \o rest ELSE rest

parseTransitions(transitionsContent) ==
  CollectTransitions(SplitTransitions(transitionsContent))

\* One attempt, at index i, of  :process\/transitions\s+\[(.*)\]  (dotall):
\* up to the last "]" of the text.
TransitionsAt(t, i) ==
  LET j == i + Len(K_processTransitions)
      k == SkipWs(t, j)
      close == {e \in (k + 1)..Len(t) : t[e] = "]"}
  IN  IF LitAt(t, i, K_processTransitions) /\ k > j /\ k <= Len(t) /\ t[k] = "["
         /\ close # {}
      THEN Match(SubSeq(t, k + 1, MaxOf(close) - 1))
      ELSE NoMatch

MatchStates(t) ==
  LET S == {i \in 1..Len(t) : SetAt(t, i, K_processStates).found}
  IN  IF S = {} THEN NoMatch ELSE SetAt(t, MinOf(S), K_processStates)

MatchTransitions(t) ==
  LET S == {i \in 1..Len(t) : TransitionsAt(t, i).found}
  IN  IF S = {} THEN NoMatch ELSE TransitionsAt(t, MinOf(S))

\* The TransactionProcess of either shape.
Process(format, id, states, transitions) ==
  [format |-> format, processId |-> id, states |-> states, transitions |-> transitions]

parseV2Format(cleanEdn) ==
  LET processIdMatch == MatchKeyword(cleanEdn, K_processId, WS)
      statesMatch == MatchStates(cleanEdn)
      transitionsMatch == MatchTransitions(cleanEdn)
  IN  IF ~processIdMatch.found THEN Throw("Missing or invalid :process/id")
      ELSE IF ~statesMatch.found THEN Throw("Missing or invalid :process/states")
      ELSE IF ~transitionsMatch.found THEN Throw("Missing or invalid :process/transitions")
      ELSE Ok(Process("v2", processIdMatch.val, KeywordList(statesMatch.val),
                      parseTransitions(transitionsMatch.val)))

\* ------------------------------------------------------------------
\* edn-parser.ts: the modern (v3) shape
\* ------------------------------------------------------------------

\* How many of the lexemes t[a..b] are the lexeme c.
Count(t, a, b, c) == Cardinality({x \in a..b : t[x] = c})

\* The while loop of extractBracketedContent: bracketCount starts at 1 at
\* startIndex, goes up at "[" and down at "]", and the loop ends after the
\* first "]" that brings it to 0.  The value of currentIndex then, and 0 when
\* the text ends first.
BracketScan(t, startIndex) ==
  LET closing == {c \in startIndex..Len(t) :
                    /\ t[c] = "]"
                    /\ 1 + Count(t, startIndex, c, "[") = Count(t, startIndex, c, "]")}
  IN  IF closing = {} THEN 0 ELSE MinOf(closing) + 1

\* extractBracketedContent: the text between the "[" that follows key (pattern
\* key\s*\[ , leftmost match) and its matching "]"; null (found = FALSE) when
\* the key is not there or the bracket is never closed.
extractBracketedContent(t, key) ==
  LET S == {i \in 1..Len(t) :
              /\ LitAt(t, i, key)
              /\ SkipWs(t, i + Len(key)) <= Len(t)
              /\ t[SkipWs(t, i + Len(key))] = "["}
  IN  IF S = {} THEN NoMatch
      ELSE LET startIndex == SkipWs(t, MinOf(S) + Len(key)) + 1
               currentIndex == BracketScan(t, startIndex)
           IN  IF currentIndex = 0 THEN NoMatch
               ELSE Match(SubSeq(t, startIndex, currentIndex - 2))

\* The for loop shared by parseV3Transitions and parseV3Actions.  bracketCount
\* is the number of "{" minus the number of "}" seen so far (it may go below
\* zero); a "{" met at count 0 starts a map, and the map ends at the first "}"
\* that brings the count back to 0.  The texts of these maps, in order.
BraceScan(t) ==
  LET starts == {s \in 1..Len(t) :
                   t[s] = "{" /\ Count(t, 1, s - 1, "{") = Count(t, 1, s - 1, "}")}
      EndOf(s) == LET ends == {e \in (s + 1)..Len(t) :
                                 t[e] = "}" /\ Count(t, s, e, "{") = Count(t, s, e, "}")}
                  IN  IF ends = {} THEN 0 ELSE MinOf(ends)
      order == SortedSeq({s \in starts : EndOf(s) # 0})
  IN  [n \in 1..Len(order) |-> SubSeq(t, order[n], EndOf(order[n]))]

\* parseV3Actions: the names of the action maps that have a :name (the config
\* of an action is parsed too and used by nothing).
parseV3Actions(actionsContent) ==
  LET maps == BraceScan(actionsContent)
      named == SelectSeq(maps, LAMBDA actionText :
                 MatchKeyword(actionText, K_name, WS \cup {",", "}"}).found)
  IN  [n \in 1..Len(named) |->
         StripPrefix(MatchKeyword(named[n], K_name, WS \cup {",", "}"}).val,
                          "action/")]

\* parseV3Transition: a V3TransitionDefinition, or the error it throws.  An
\* optional field that is absent (undefined) has its has-flag FALSE.
parseV3Transition(transitionText) ==
  LET nameMatch == MatchKeyword(transitionText, K_name, WS \cup {","})
      actorMatch == MatchKeyword(transitionText, K_actor, WS \cup {","})
      toMatch == MatchKeyword(transitionText, K_to, WS \cup {",", "}"})
      fromMatch == MatchKeyword(transitionText, K_from, WS \cup {",", "}"})
      actionsContent == extractBracketedContent(transitionText, K_actions)
      hasActions == actionsContent.found /\ actionsContent.val # <<>>
  IN  IF ~nameMatch.found THEN Throw("Missing transition name")
      ELSE Ok([name |-> nameMatch.val,
               hasActor |-> actorMatch.found,
               actor |-> IF actorMatch.found
                         THEN StripPrefix(actorMatch.val, "actor.role/") ELSE <<>>,
               hasTo |-> toMatch.found,
               to |-> IF toMatch.found
                      THEN StripPrefix(toMatch.val, "state/") ELSE <<>>,
               hasFrom |-> fromMatch.found,
               from |-> IF fromMatch.found
                        THEN StripPrefix(fromMatch.val, "state/") ELSE <<>>,
               hasActions |-> hasActions,
               actions |-> IF hasActions THEN parseV3Actions(actionsContent.val)
                           ELSE <<>>])

RECURSIVE CollectV3Transitions(_)
CollectV3Transitions(maps) ==
  IF maps = <<>> THEN <<>>
  ELSE LET transition == parseV3Transition(Head(maps))
       IN  IF transition.ok
           THEN <<transition.val>> \o CollectV3Transitions(Tail(maps))
           ELSE CollectV3Transitions(Tail(maps))

\* parseV3Transitions: a map whose parseV3Transition throws is skipped with a
\* warning.
parseV3Transitions(transitionsContent) ==
  CollectV3Transitions(BraceScan(transitionsContent))

\* parseV3Format.  The :notifications vector is parsed as well; nothing it
\* yields is read by generateGraphData and none of its errors escapes, so the
\* process carries no notifications here.
parseV3Format(cleanEdn) ==
  LET transitionsMatch == extractBracketedContent(cleanEdn, K_transitions)
  IN  IF ~transitionsMatch.found \/ transitionsMatch.val = <<>>
      THEN Throw("Missing or invalid :transitions")
      ELSE Ok(Process("v3", <<>>, <<>>, parseV3Transitions(transitionsMatch.val)))

\* parseEdn with a fault: a text that shows no shape is taken for a legacy
\* document.
parseEdnAssumesLegacy(ednString) ==
  LET cleanEdn == StripComments(ednString)
      isV3Format == Includes(cleanEdn, K_formatV3)
  IN  IF isV3Format THEN parseV3Format(cleanEdn) ELSE parseV2Format(cleanEdn)

\* parseEdn: comments removed, the shape detected, the shape's parser run; an
\* Error thrown inside is rethrown as it is.
parseEdn(ednString) ==
  LET cleanEdn == StripComments(ednString)
      isV3Format == Includes(cleanEdn, K_formatV3)
      isV2Format == Includes(cleanEdn, K_processId) /\ Includes(cleanEdn, K_processStates)
  IN  IF isV3Format THEN parseV3Format(cleanEdn)
      ELSE IF isV2Format THEN parseV2Format(cleanEdn)
      ELSE Throw("Unrecognized EDN format. Please provide a valid Sharetribe transaction process.")

\* ------------------------------------------------------------------
\* graph-generator: numbers, maps and small helpers
\* ------------------------------------------------------------------

\* Math.max() of no arguments is -Infinity.  The finite numbers of a layout
\* are small, so one integer far below them stands for it; Plus and Times
\* below make it absorbing, as IEEE arithmetic does for -Infinity + 1 and
\* -Infinity * 150.
NegInfinity == -1000000000

Plus(a, b) == IF a = NegInfinity \/ b = NegInfinity THEN NegInfinity ELSE a + b
Times(a, b) == IF a = NegInfinity THEN NegInfinity ELSE a * b

\* A string is truthy when it is not empty.
Truthy(str) == str # <<>>

INITIAL == <<"initial">>
SYSTEM == <<"system">>

Range(f) == {f[k] : k \in DOMAIN f}

\* Math.max(...Array.from(levels.values()))
MaxLevel(levels) ==
  IF DOMAIN levels = {} THEN NegInfinity ELSE MaxOf(Range(levels))

\* levels.get(s) || 0
LevelOr0(levels, s) == IF s \in DOMAIN levels THEN levels[s] ELSE 0

\* Array.prototype.indexOf (0-based, -1 when absent)
IndexOf(seq, x) ==
  LET S == {i \in 1..Len(seq) : seq[i] = x}
  IN  IF S = {} THEN -1 ELSE MinOf(S) - 1

\* Set.prototype.add on a Set kept in insertion order
SetAdd(seq, x) == IF \E i \in 1..Len(seq) : seq[i] = x THEN seq ELSE Append(seq, x)

\* The state of the breadth-first loop of a layout function.
BfsState(queue, visited, levels) ==
  [queue |-> queue, visited |-> visited, levels |-> levels]

RECURSIVE Discover(_, _, _)
\* outgoingTransitions.forEach: a target that has no level yet gets
\* currentLevel + 1 and is pushed on the queue.  (targets: the `to` of the
\* outgoing transitions that have one, in order.)
Discover(targets, st, currentLevel) ==
  IF targets = <<>> THEN st
  ELSE Discover(Tail(targets),
                IF Head(targets) \notin DOMAIN st.levels
                THEN BfsState(Append(st.queue, Head(targets)), st.visited,
                              st.levels @@ (Head(targets) :> currentLevel + 1))
                ELSE st,
                currentLevel)

\* ------------------------------------------------------------------
\* graph-generator: the colour of an actor
\* ------------------------------------------------------------------

\* String.prototype.toLowerCase on a lexeme: the lexemes of the documents
\* that have capital letters, and what they become; every other lexeme is
\* lower case already.
LowerCased ==
  [lexeme \in {"Customer", "PROVIDER", "Operator", "ACTOR.ROLE/", "toString", "valueOf"} |->
     CASE lexeme = "Customer" -> "customer"
       [] lexeme = "PROVIDER" -> "provider"
       [] lexeme = "Operator" -> "operator"
       [] lexeme = "ACTOR.ROLE/" -> "actor.role/"
       [] lexeme = "toString" -> "tostring"
       [] lexeme = "valueOf" -> "valueof"]

toLowerCase(str) ==
  [n \in 1..Len(str) |->
     IF str[n] \in DOMAIN LowerCased THEN LowerCased[str[n]] ELSE str[n]]

\* const ACTOR_COLORS = { customer: ..., default: ... }
ACTOR_COLORS ==
  [customer |-> "#F97316", provider |-> "#EC4899", operator |-> "#10B981",
   system |-> "#6B7280", default |-> "#6B7280"]

\* ACTOR_COLORS is an object literal: a property it does not have itself is
\* looked up in Object.prototype.  The properties found there, and the
\* values (written as they print) a lookup returns: functions and, for
\* __proto__, Object.prototype itself.
ObjectPrototype ==
  [property \in {"constructor", "__proto__", "toString", "valueOf", "hasOwnProperty",
                 "isPrototypeOf", "propertyIsEnumerable", "toLocaleString"} |->
     IF property = "__proto__" THEN "[Object: null prototype] {}"
     ELSE "[Function: " \o property \o "]"]

\* The value of ACTOR_COLORS[key], "undefined" for undefined.
ActorColorsGet(key) ==
  IF Len(key) # 1 THEN "undefined"
  ELSE IF key[1] \in DOMAIN ACTOR_COLORS THEN ACTOR_COLORS[key[1]]
  ELSE IF key[1] \in DOMAIN ObjectPrototype THEN ObjectPrototype[key[1]]
  ELSE "undefined"

\* getActorColor: every value a lookup finds is truthy, so "|| default"
\* acts on undefined only.
getActorColor(actor) ==
  LET normalizedActor == StripPrefix(toLowerCase(actor), "actor.role/")
      found == ActorColorsGet(normalizedActor)
  IN  IF found = "undefined" THEN ACTOR_COLORS["default"] ELSE found

\* ------------------------------------------------------------------
\* graph-generator: the modern (v3) shape
\* ------------------------------------------------------------------

horizontalSpacing == 280
verticalSpacing == 180
baseY == 100

\* FromOrInitial with a fault: the "|| 'initial'" is forgotten.
FromOrEmpty(t) == t.from

\* transition.from || 'initial'
FromOrInitial(t) == IF t.hasFrom /\ Truthy(t.from) THEN t.from ELSE INITIAL

\* The `to` states the loop body looks at for currentState: the transitions
\* whose (from || 'initial') is currentState and whose `to` is truthy.
OutgoingV3(transitions, currentState) ==
  LET out == SelectSeq(transitions, LAMBDA t :
                 FromOrInitial(t) = currentState /\ t.hasTo /\ Truthy(t.to))
  IN  [n \in 1..Len(out) |-> out[n].to]

BfsInitV3 == BfsState(<<INITIAL>>, {}, (INITIAL :> 0))

\* One iteration of the while loop of getImprovedTreePosition.
BfsStepV3(transitions, st) ==
  LET currentState == Head(st.queue)
      shifted == BfsState(Tail(st.queue), st.visited, st.levels)
  IN  IF currentState \in st.visited THEN shifted
      ELSE Discover(OutgoingV3(transitions, currentState),
                    BfsState(shifted.queue, st.visited \cup {currentState}, st.levels),
                    LevelOr0(st.levels, currentState))

RECURSIVE BfsRunV3(_, _)
BfsRunV3(transitions, st) ==
  IF st.queue = <<>> THEN st ELSE BfsRunV3(transitions, BfsStepV3(transitions, st))

\* PlaceV3 with a fault: a state the loop never reached is left without a
\* level, and "levels.get(state) || 0" puts it on level 0.
PlaceV3Unplaced(state, states, bfsLevels) ==
  LET levels == bfsLevels
      level == LevelOr0(levels, state)
      statesAtLevel == SelectSeq(states, LAMBDA s :
                          LevelOr0(levels, s) = level)
      positionInLevel == IndexOf(statesAtLevel, state)
      totalWidth == (Len(statesAtLevel) - 1) * horizontalSpacing
      baseX == 400 - totalWidth \div 2
  IN  [x |-> positionInLevel * horizontalSpacing + baseX,
       y |-> Plus(Times(level, verticalSpacing), baseY)]

\* The part of getImprovedTreePosition after the loop.
PlaceV3(state, states, bfsLevels) ==
  LET levels == IF state \in DOMAIN bfsLevels THEN bfsLevels
                ELSE bfsLevels @@ (state :> Plus(MaxLevel(bfsLevels), 1))
      level == LevelOr0(levels, state)
      statesAtLevel == SelectSeq(states, LAMBDA s :
                          s \in DOMAIN levels /\ levels[s] = level)
      positionInLevel == IndexOf(statesAtLevel, state)
      totalWidth == (Len(statesAtLevel) - 1) * horizontalSpacing
      baseX == 400 - totalWidth \div 2
  IN  [x |-> positionInLevel * horizontalSpacing + baseX,
       y |-> Plus(Times(level, verticalSpacing), baseY)]

getImprovedTreePosition(state, transitions, states) ==
  PlaceV3(state, states, BfsRunV3(transitions, BfsInitV3).levels)

\* A ReactFlow node: id, label (formatStateLabel is the identity) and position.
Node(state, pos) == [id |-> state, label |-> state, x |-> pos.x, y |-> pos.y]

RECURSIVE StateSetV3(_, _)
\* transitions.forEach(...stateSet.add(from), stateSet.add(to)...)
StateSetV3(transitions, stateSet) ==
  IF transitions = <<>> THEN stateSet
  ELSE LET t == Head(transitions)
           s1 == IF t.hasFrom /\ Truthy(t.from) THEN SetAdd(stateSet, t.from) ELSE stateSet
           s2 == IF t.hasTo /\ Truthy(t.to) THEN SetAdd(s1, t.to) ELSE s1
       IN  StateSetV3(Tail(transitions), s2)

\* The edge of transition number transitionIndex (0-based).
EdgeV3(transition, transitionIndex) ==
  [id |-> transition.name \o <<"-", ToString(transitionIndex)>>,
   source |-> FromOrInitial(transition),
   target |-> transition.to,
   stroke |-> getActorColor(IF transition.hasActor /\ Truthy(transition.actor)
                            THEN transition.actor ELSE SYSTEM),
   transitionId |-> transition.name,
   actor |-> IF transition.hasActor /\ Truthy(transition.actor)
             THEN transition.actor ELSE SYSTEM,
   actions |-> transition.actions,
   notifications |-> <<>>,
   from |-> FromOrInitial(transition),
   to |-> transition.to]

RECURSIVE EdgesV3Unfiltered(_, _)
\* EdgesV3 with a fault: the "if (transition.to)" around the edge is forgotten.
EdgesV3Unfiltered(transitions, transitionIndex) ==
  IF transitions = <<>> THEN <<>>
  ELSE <<EdgeV3(Head(transitions), transitionIndex)>>
       \o EdgesV3Unfiltered(Tail(transitions), transitionIndex + 1)

RECURSIVE EdgesV3(_, _)
EdgesV3(transitions, transitionIndex) ==
  IF transitions = <<>> THEN <<>>
  ELSE (IF Head(transitions).hasTo /\ Truthy(Head(transitions).to)
        THEN <<EdgeV3(Head(transitions), transitionIndex)>> ELSE <<>>)
       \o EdgesV3(Tail(transitions), transitionIndex + 1)

generateV3GraphData(processData) ==
  LET transitions == processData.transitions
      initialTransitions == SelectSeq(transitions, LAMBDA t : ~(t.hasFrom /\ Truthy(t.from)))
      states == StateSetV3(transitions,
                           IF Len(initialTransitions) > 0 THEN <<INITIAL>> ELSE <<>>)
  IN  [nodes |-> [n \in 1..Len(states) |->
                    Node(states[n], getImprovedTreePosition(states[n], transitions, states))],
       edges |-> EdgesV3(transitions, 0)]

\* ------------------------------------------------------------------
\* graph-generator: the legacy (v2) shape
\* ------------------------------------------------------------------

\* The `to` of the transitions one of whose from-states is currentState.
OutgoingV2(transitions, currentState) ==
  LET out == SelectSeq(transitions, LAMBDA t :
                 \E i \in 1..Len(t.from) : t.from[i] = currentState)
  IN  [n \in 1..Len(out) |-> out[n].to]

\* The states that are the target of no transition, in declaration order.
RootStatesV2(transitions, states) ==
  SelectSeq(states, LAMBDA s : \A i \in 1..Len(transitions) : transitions[i].to # s)

BfsInitV2(transitions, states) ==
  LET rootStates == RootStatesV2(transitions, states)
  IN  BfsState(rootStates, {}, [r \in Range(rootStates) |-> 0])

\* BfsStepV2 with a fault: the head of the queue is read with queue[0] and
\* taken off only once it is known not to be visited.
BfsStepV2Peek(transitions, st) ==
  LET currentState == Head(st.queue)
  IN  IF currentState \in st.visited THEN st
      ELSE Discover(OutgoingV2(transitions, currentState),
                    BfsState(Tail(st.queue), st.visited \cup {currentState}, st.levels),
                    LevelOr0(st.levels, currentState))

\* One iteration of the while loop of getVerticalTreePositionV2.
BfsStepV2(transitions, st) ==
  LET currentState == Head(st.queue)
      shifted == BfsState(Tail(st.queue), st.visited, st.levels)
  IN  IF currentState \in st.visited THEN shifted
      ELSE Discover(OutgoingV2(transitions, currentState),
                    BfsState(shifted.queue, st.visited \cup {currentState}, st.levels),
                    LevelOr0(st.levels, currentState))

RECURSIVE BfsRunV2(_, _)
BfsRunV2(transitions, st) ==
  IF st.queue = <<>> THEN st ELSE BfsRunV2(transitions, BfsStepV2(transitions, st))

\* PlaceV2 with a fault: the states of a level are counted from the last one.
PlaceV2Reversed(state, states, bfsLevels) ==
  LET levels == IF state \in DOMAIN bfsLevels THEN bfsLevels
                ELSE bfsLevels @@ (state :> Plus(MaxLevel(bfsLevels), 1))
      level == LevelOr0(levels, state)
      statesAtLevel == SelectSeq(states, LAMBDA s :
                          s \in DOMAIN levels /\ levels[s] = level)
      positionInLevel == Len(statesAtLevel) - 1 - IndexOf(statesAtLevel, state)
  IN  [x |-> positionInLevel * 250 + 100,
       y |-> Plus(Times(level, 150), 50)]

\* The part of getVerticalTreePositionV2 after the loop.
PlaceV2(state, states, bfsLevels) ==
  LET levels == IF state \in DOMAIN bfsLevels THEN bfsLevels
                ELSE bfsLevels @@ (state :> Plus(MaxLevel(bfsLevels), 1))
      level == LevelOr0(levels, state)
      statesAtLevel == SelectSeq(states, LAMBDA s :
                          s \in DOMAIN levels /\ levels[s] = level)
      positionInLevel == IndexOf(statesAtLevel, state)
  IN  [x |-> positionInLevel * 250 + 100,
       y |-> Plus(Times(level, 150), 50)]

getVerticalTreePositionV2(state, transitions, states) ==
  PlaceV2(state, states, BfsRunV2(transitions, BfsInitV2(transitions, states)).levels)

\* The edge of a transition for its from-state number fromIndex (1-based here,
\* 0-based in the edge id).
EdgeV2(transition, fromIndex) ==
  [id |-> transition.id \o <<"-", ToString(fromIndex - 1)>>,
   source |-> transition.from[fromIndex],
   target |-> transition.to,
   stroke |-> getActorColor(IF Truthy(transition.actor) THEN transition.actor ELSE SYSTEM),
   transitionId |-> transition.id,
   actor |-> transition.actor,
   actions |-> transition.actions,
   notifications |-> transition.notifications,
   from |-> transition.from[fromIndex],
   to |-> transition.to]

RECURSIVE EdgesV2(_)
EdgesV2(transitions) ==
  IF transitions = <<>> THEN <<>>
  ELSE [i \in 1..Len(Head(transitions).from) |-> EdgeV2(Head(transitions), i)]
       \o EdgesV2(Tail(transitions))

generateV2GraphData(processData) ==
  LET states == processData.states
      transitions == processData.transitions
  IN  [nodes |-> [n \in 1..Len(states) |->
                    Node(states[n], getVerticalTreePositionV2(states[n], transitions, states))],
       edges |-> EdgesV2(transitions)]

generateGraphData(processData) ==
  IF processData.format = "v3" THEN generateV3GraphData(processData)
  ELSE generateV2GraphData(processData)

\* ------------------------------------------------------------------
\* Documents: the texts the page is given
\* ------------------------------------------------------------------

\* home.tsx, DEFAULT_V3_EDN: the sample process, lexeme by lexeme.
DEFAULT_V3_EDN ==
  <<"{", ":", "format", " ", ":", "v3", ",", "\n", " ", ":", "transitions",
    "\n", " ", "[", "{", ":", "name", " ", ":", "transition/", "inquire",
    ",", "\n", " ", " ", " ", ":", "actor", " ", ":", "actor.role/",
    "customer", ",", "\n", " ", " ", " ", ":", "actions", " ", "[", "{", ":",
    "name", " ", ":", "action/", "update-protected-data", "}", "]", ",",
    "\n", " ", " ", " ", ":", "to", " ", ":", "state/", "inquiry", "}", "\n",
    " ", " ", "{", ":", "name", " ", ":", "transition/", "request-payment",
    ",", "\n", " ", " ", " ", ":", "actor", " ", ":", "actor.role/",
    "customer", ",", "\n", " ", " ", " ", ":", "actions", "\n", " ", " ",
    " ", "[", "{", ":", "name", " ", ":", "action/", "update-protected-data",
    "}", "\n", " ", " ", " ", " ", "{", ":", "name", " ", ":", "action/",
    "create-pending-booking", ",", " ", ":", "config", " ", "{", ":", "type",
    " ", ":", "time", "}", "}", "\n", " ", " ", " ", " ", "{", ":", "name",
    " ", ":", "action/", "privileged-set-line-items", "}", "\n", " ", " ",
    " ", " ", "{", ":", "name", " ", ":", "action/",
    "stripe-create-payment-intent", "}", "]", ",", "\n", " ", " ", " ", ":",
    "to", " ", ":", "state/", "pending-payment", ",", "\n", " ", " ", " ",
    ":", "privileged?", " ", "true", "}", "\n", " ", " ", "{", ":", "name",
    " ", ":", "transition/", "request-payment-after-inquiry", ",", "\n", " ",
    " ", " ", ":", "actor", " ", ":", "actor.role/", "customer", ",", "\n",
    " ", " ", " ", ":", "actions", "\n", " ", " ", " ", "[", "{", ":",
    "name", " ", ":", "action/", "update-protected-data", "}", "\n", " ",
    " ", " ", " ", "{", ":", "name", " ", ":", "action/",
    "create-pending-booking", ",", " ", ":", "config", " ", "{", ":", "type",
    " ", ":", "time", "}", "}", "\n", " ", " ", " ", " ", "{", ":", "name",
    " ", ":", "action/", "privileged-set-line-items", "}", "\n", " ", " ",
    " ", " ", "{", ":", "name", " ", ":", "action/",
    "stripe-create-payment-intent", "}", "]", ",", "\n", " ", " ", " ", ":",
    "from", " ", ":", "state/", "inquiry", ",", "\n", " ", " ", " ", ":",
    "to", " ", ":", "state/", "pending-payment", ",", "\n", " ", " ", " ",
    ":", "privileged?", " ", "true", "}", "\n", " ", " ", "{", ":", "name",
    " ", ":", "transition/", "expire-payment", ",", "\n", " ", " ", " ", ":",
    "at", "\n", " ", " ", " ", "{", ":", "fn/", "plus", "\n", " ", " ", " ",
    " ", "[", "{", ":", "fn/", "timepoint", " ", "[", ":", "time/",
    "first-entered-state", " ", ":", "state/", "pending-payment", "]", "}",
    "\n", " ", " ", " ", " ", " ", "{", ":", "fn/", "period", " ", "[",
    "\"PT15M\"", "]", "}", "]", "}", ",", "\n", " ", " ", " ", ":",
    "actions", "\n", " ", " ", " ", "[", "{", ":", "name", " ", ":",
    "action/", "calculate-full-refund", "}", "\n", " ", " ", " ", " ", "{",
    ":", "name", " ", ":", "action/", "stripe-refund-payment", "}", "\n",
    " ", " ", " ", " ", "{", ":", "name", " ", ":", "action/",
    "decline-booking", "}", "]", ",", "\n", " ", " ", " ", ":", "from", " ",
    ":", "state/", "pending-payment", ",", "\n", " ", " ", " ", ":", "to",
    " ", ":", "state/", "payment-expired", "}", "\n", " ", " ", "{", ":",
    "name", " ", ":", "transition/", "confirm-payment", ",", "\n", " ", " ",
    " ", ":", "actor", " ", ":", "actor.role/", "customer", ",", "\n", " ",
    " ", " ", ":", "actions", " ", "[", "{", ":", "name", " ", ":",
    "action/", "stripe-confirm-payment-intent", "}", "]", ",", "\n", " ",
    " ", " ", ":", "from", " ", ":", "state/", "pending-payment", ",", "\n",
    " ", " ", " ", ":", "to", " ", ":", "state/", "preauthorized", "}", "\n",
    " ", " ", "{", ":", "name", " ", ":", "transition/", "accept", ",", "\n",
    " ", " ", " ", ":", "actor", " ", ":", "actor.role/", "provider", ",",
    "\n", " ", " ", " ", ":", "actions", "\n", " ", " ", " ", "[", "{", ":",
    "name", " ", ":", "action/", "accept-booking", "}", "\n", " ", " ", " ",
    " ", "{", ":", "name", " ", ":", "action/",
    "stripe-capture-payment-intent", "}", "]", ",", "\n", " ", " ", " ", ":",
    "from", " ", ":", "state/", "preauthorized", ",", "\n", " ", " ", " ",
    ":", "to", " ", ":", "state/", "accepted", "}", "\n", " ", " ", "{", ":",
    "name", " ", ":", "transition/", "decline", ",", "\n", " ", " ", " ",
    ":", "actor", " ", ":", "actor.role/", "provider", ",", "\n", " ", " ",
    " ", ":", "actions", "\n", " ", " ", " ", "[", "{", ":", "name", " ",
    ":", "action/", "calculate-full-refund", "}", "\n", " ", " ", " ", " ",
    "{", ":", "name", " ", ":", "action/", "stripe-refund-payment", "}",
    "\n", " ", " ", " ", " ", "{", ":", "name", " ", ":", "action/",
    "decline-booking", "}", "]", ",", "\n", " ", " ", " ", ":", "from", " ",
    ":", "state/", "preauthorized", ",", "\n", " ", " ", " ", ":", "to", " ",
    ":", "state/", "declined", "}", "]", "}">>

\* README, "EDN v2 Format".
README_V2 ==
  <<"{", ":", "process/", "id", " ", ":", "example-process", "\n", " ", ":",
    "process/", "states", " ", "#", "{", ":", "initial", " ", ":", "pending",
    " ", ":", "completed", "}", "\n", " ", ":", "process/", "transitions",
    "\n", " ", "[", "{", ":", "transition/", "id", " ", ":", "initiate",
    "\n", " ", " ", " ", ":", "transition/", "from", " ", ":", "initial",
    "\n", " ", " ", " ", ":", "transition/", "to", " ", ":", "pending", "\n",
    " ", " ", " ", ":", "transition/", "actor", " ", ":", "actor.role/",
    "customer", "}", "]", "}", "\n">>

\* README, "EDN v3 Format".
README_V3 ==
  <<"{", ":", "format", " ", ":", "v3", "\n", " ", ":", "transitions", "\n",
    " ", "[", "{", ":", "name", " ", ":", "transition/", "initiate", "\n",
    " ", " ", " ", ":", "actor", " ", ":", "actor.role/", "customer", "\n",
    " ", " ", " ", ":", "actions", " ", "[", "{", ":", "name", " ", ":",
    "action/", "create-booking", "}", "]", "\n", " ", " ", " ", ":", "to",
    " ", ":", "state/", "pending", "}", "]", "}">>

\* A text of neither shape, and a modern text without its :transitions.
UNRECOGNIZED == <<"{", ":", "foo", " ", ":", "bar", "}">>
NO_TRANSITIONS == <<"{">> \o K_formatV3 \o <<"}">>
BLANK == <<" ", "\n">>

\* ------------------------------------------------------------------
\* Written documents: what an author wrote, and the text of it
\* ------------------------------------------------------------------

MaxTransitions == 2

StateNames == {"a", "b", "c"}
TransitionNames == <<"t1", "t2", "t3", "t4">>
Absent == ""

SeqsUpTo(S, n) == UNION {[1..k -> S] : k \in 0..n}

RECURSIVE JoinWith(_, _)
JoinWith(texts, sep) ==
  IF texts = <<>> THEN <<>>
  ELSE IF Len(texts) = 1 THEN Head(texts)
  ELSE Head(texts) \o sep \o JoinWith(Tail(texts), sep)

\* :name, :state/name, ...
Keyword(prefix, name) == <<":">> \o prefix \o <<name>>

\* A legacy `from` as written: absent, one keyword, or a set of keywords
\* separated by blanks or by commas (both are whitespace to an EDN reader).
FromWrittenV2 ==
  {[kind |-> "none", names |-> <<>>, sep |-> " "]}
  \cup {[kind |-> "one", names |-> <<s>>, sep |-> " "] : s \in StateNames}
  \cup {[kind |-> "set", names |-> <<"a", "b">>, sep |-> " "],
        [kind |-> "set", names |-> <<"a", "a">>, sep |-> " "],
        [kind |-> "set", names |-> <<"a", "b">>, sep |-> ","]}

TransitionWrittenV2 == [from : FromWrittenV2, to : StateNames \cup {Absent}]
TransitionWrittenV3 == [from : StateNames \cup {Absent}, to : StateNames \cup {Absent}]

\* The declared state list of a legacy document as written, repeats included.
StatesWritten == {<<"a", "b", "c">>, <<"a", "b">>, <<"a", "a", "b">>}

WrittenV2 ==
  [format : {"v2"}, states : StatesWritten,
   transitions : SeqsUpTo(TransitionWrittenV2, MaxTransitions)]
WrittenV3 ==
  [format : {"v3"}, states : {<<>>},
   transitions : SeqsUpTo(TransitionWrittenV3, MaxTransitions)]
Written == WrittenV2 \cup WrittenV3
NoDocument == [format |-> "none", states |-> <<>>, transitions |-> <<>>]

RenderFromV2(f) ==
  IF f.kind = "none" THEN <<>>
  ELSE IF f.kind = "one"
       THEN <<" ">> \o K_transitionFrom \o <<" ">> \o Keyword(<<>>, f.names[1])
       ELSE <<" ">> \o K_transitionFrom \o <<" ", "#", "{">>
            \o JoinWith([n \in 1..Len(f.names) |-> Keyword(<<>>, f.names[n])], <<f.sep>>)
            \o <<"}">>

\* {:transition/id :t1 :transition/from :a :transition/to :b
\*  :transition/actor :actor.role/customer }
RenderTransitionV2(w, n) ==
  <<"{">> \o K_transitionId \o <<" ">> \o Keyword(<<>>, TransitionNames[n])
  \o RenderFromV2(w.from)
  \o (IF w.to = Absent THEN <<>>
      ELSE <<" ">> \o K_transitionTo \o <<" ">> \o Keyword(<<>>, w.to))
  \o <<" ">> \o K_transitionActor \o <<" ">> \o Keyword(<<"actor.role/">>, "customer")
  \o <<" ", "}">>

\* {:name :transition/t1 :actor :actor.role/customer :from :state/a :to :state/b }
RenderTransitionV3(w, n) ==
  <<"{">> \o K_name \o <<" ">> \o Keyword(<<"transition/">>, TransitionNames[n])
  \o <<" ">> \o K_actor \o <<" ">> \o Keyword(<<"actor.role/">>, "customer")
  \o (IF w.from = Absent THEN <<>>
      ELSE <<" ">> \o K_from \o <<" ">> \o Keyword(<<"state/">>, w.from))
  \o (IF w.to = Absent THEN <<>>
      ELSE <<" ">> \o K_to \o <<" ">> \o Keyword(<<"state/">>, w.to))
  \o <<" ", "}">>

Render(w) ==
  IF w.format = "v2"
  THEN <<"{">> \o K_processId \o <<" ">> \o Keyword(<<>>, "p") \o <<"\n", " ">>
       \o K_processStates \o <<" ", "#", "{">>
       \o JoinWith([n \in 1..Len(w.states) |-> Keyword(<<>>, w.states[n])], <<" ">>)
       \o <<"}", "\n", " ">> \o K_processTransitions \o <<"\n", " ", "[">>
       \o JoinWith([n \in 1..Len(w.transitions) |-> RenderTransitionV2(w.transitions[n], n)],
                   <<"\n", " ", " ">>)
       \o <<"]", "}">>
  ELSE <<"{">> \o K_formatV3 \o <<"\n", " ">> \o K_transitions \o <<"\n", " ", "[">>
       \o JoinWith([n \in 1..Len(w.transitions) |-> RenderTransitionV3(w.transitions[n], n)],
                   <<"\n", " ", " ">>)
       \o <<"]", "}">>

\* ------------------------------------------------------------------
\* Detailed documents: actors, repeated keys, chosen transition ids,
\* spacing styles, damaged delimiters and missing keys
\* ------------------------------------------------------------------

\* An actor as written after the colon; <<>> when the key is not written.
NoActor == <<>>
CustomerRole == <<"actor.role/", "customer">>
ActorsWritten ==
  {NoActor, CustomerRole, <<"customer">>, <<"actor.role/", "provider">>,
   <<"actor.role/", "operator">>, <<"system">>, <<"actor.role/", "admin">>,
   <<"Customer">>, <<"ACTOR.ROLE/", "PROVIDER">>,
   <<"actor.role/", "constructor">>, <<"__proto__">>, <<"toString">>}

\* How the values of a transition map are set apart: by blanks with a blank
\* before the closing brace, by blanks with the closing brace straight after
\* the last value, or by commas.
Styles == {"spaced", "tight", "commas"}

\* A delimiter of the document left out, or replaced by a closing delimiter
\* of another kind; place "none" is the undamaged document.
Places == {"document", "vector", "transition", "states"}
NoDamage == [place |-> "none", kind |-> "none"]
Damages == {NoDamage} \cup [place : Places, kind : {"missing", "wrong"}]

\* The keys a document is written with: all of them, or all but one (the
\* marker is :format :v3 or :process/id); for "notVector" the transitions key
\* is written with nil for its value.
Keys == {"all", "noMarker", "noStates", "noTransitions", "notVector"}

TransitionDetailed(id, from, to, toAgain, actor, actorAgain, actions) ==
  [id |-> id, from |-> from, to |-> to, toAgain |-> toAgain,
   actor |-> actor, actorAgain |-> actorAgain, actions |-> actions]

Detailed(format, style, namespaced, damage, keys, transitions) ==
  [format |-> format, style |-> style, namespaced |-> namespaced,
   damage |-> damage, keys |-> keys, transitions |-> transitions]

Formats == {"v2", "v3"}

\* One transition; its actor, its repeated keys, its actions and the style
\* vary.  A transition with actions is written with two actions and, in the
\* legacy shape, one notification.
DetailedActors ==
  {Detailed(format, style, namespaced, NoDamage, "all",
            <<TransitionDetailed("t1", from, "b", toAgain, actor, actorAgain, actions)>>) :
     format \in Formats, style \in Styles, namespaced \in BOOLEAN,
     from \in {Absent, "a"}, toAgain \in {Absent, "c"},
     actor \in ActorsWritten, actorAgain \in {NoActor, <<"actor.role/", "provider">>},
     actions \in BOOLEAN}

\* Two transitions; their ids and their ends vary.
TransitionsChosen ==
  {TransitionDetailed(id, from, to, Absent, CustomerRole, NoActor, FALSE) :
     id \in {"t1", "t2"}, from \in {"a", "b"}, to \in {"b", "c"}}
DetailedIds ==
  {Detailed(format, "spaced", FALSE, NoDamage, "all", <<first, second>>) :
     format \in Formats, first \in TransitionsChosen, second \in TransitionsChosen}

\* One or two plain transitions; the delimiters or the keys vary.
PlainTransitions(count) ==
  [n \in 1..count |->
     TransitionDetailed(TransitionNames[n], "a", "b", Absent, CustomerRole, NoActor, n = 1)]
DetailedDamaged ==
  {Detailed(format, style, FALSE, damage, "all", PlainTransitions(count)) :
     format \in Formats, style \in {"spaced", "tight"}, damage \in Damages,
     count \in 1..MaxTransitions}
DetailedKeys ==
  {Detailed(format, style, FALSE, NoDamage, keys, PlainTransitions(count)) :
     format \in Formats, style \in {"spaced", "tight"}, keys \in Keys,
     count \in 1..MaxTransitions}

\* The legacy example of the README, whose text is README_V2: every key on
\* a line of its own, the closing delimiters straight after the last value.
DetailedReadme ==
  Detailed("v2", "readme", FALSE, NoDamage, "all",
           <<TransitionDetailed("initiate", "initial", "pending", Absent,
                                CustomerRole, NoActor, FALSE)>>)

\* A modern document whose :transitions vector has no transition: [] when
\* tight, [ ] when spaced.
DetailedEmpty ==
  {Detailed("v3", style, FALSE, NoDamage, "all", <<>>) :
     style \in {"spaced", "tight"}}

Details ==
  DetailedActors \cup DetailedIds \cup DetailedDamaged \cup DetailedKeys
  \cup {DetailedReadme} \cup DetailedEmpty

\* A closing delimiter as the document has it.
Closer(w, place, delimiter) ==
  IF w.damage.place # place THEN <<delimiter>>
  ELSE IF w.damage.kind = "missing" THEN <<>>
  ELSE IF delimiter = "}" THEN <<"]">> ELSE <<"}">>

StateKeyword(w, name) == Keyword(IF w.namespaced THEN <<"state/">> ELSE <<>>, name)

Field(key, value) == key \o <<" ">> \o value

\* The fields of the n-th transition map, in the order written.
FieldsV2(w, n) ==
  LET t == w.transitions[n]
  IN  <<Field(K_transitionId, Keyword(<<>>, t.id))>>
      \o (IF t.from = Absent THEN <<>>
          ELSE <<Field(K_transitionFrom, StateKeyword(w, t.from))>>)
      \o <<Field(K_transitionTo, StateKeyword(w, t.to))>>
      \o (IF t.toAgain = Absent THEN <<>>
          ELSE <<Field(K_transitionTo, StateKeyword(w, t.toAgain))>>)
      \o (IF t.actor = NoActor THEN <<>>
          ELSE <<Field(K_transitionActor, <<":">> \o t.actor)>>)
      \o (IF t.actorAgain = NoActor THEN <<>>
          ELSE <<Field(K_transitionActor, <<":">> \o t.actorAgain)>>)
      \o (IF ~t.actions THEN <<>>
          ELSE <<Field(K_transitionActions,
                       <<"[">> \o Keyword(<<"action/">>, "do") \o <<" ">>
                       \o Keyword(<<"action/">>, "more") \o <<"]">>),
                 Field(K_transitionNotifications,
                       <<"[">> \o Keyword(<<"notification/">>, "tell") \o <<"]">>)>>)

FieldsV3(w, n) ==
  LET t == w.transitions[n]
  IN  <<Field(K_name, Keyword(<<"transition/">>, t.id))>>
      \o (IF t.actor = NoActor THEN <<>> ELSE <<Field(K_actor, <<":">> \o t.actor)>>)
      \o (IF t.actorAgain = NoActor THEN <<>>
          ELSE <<Field(K_actor, <<":">> \o t.actorAgain)>>)
      \o (IF ~t.actions THEN <<>>
          ELSE <<Field(K_actions,
                       <<"[", "{">> \o Field(K_name, Keyword(<<"action/">>, "do"))
                       \o <<"}", " ", "{">>
                       \o Field(K_name, Keyword(<<"action/">>, "more")) \o <<"}", "]">>)>>)
      \o (IF t.from = Absent THEN <<>> ELSE <<Field(K_from, StateKeyword(w, t.from))>>)
      \o <<Field(K_to, StateKeyword(w, t.to))>>
      \o (IF t.toAgain = Absent THEN <<>>
          ELSE <<Field(K_to, StateKeyword(w, t.toAgain))>>)

RenderTransitionDetailed(w, n) ==
  <<"{">>
  \o JoinWith(IF w.format = "v2" THEN FieldsV2(w, n) ELSE FieldsV3(w, n),
              IF w.style = "commas" THEN <<",", " ">> ELSE <<" ">>)
  \o (IF w.style = "spaced" THEN <<" ">> ELSE <<>>)
  \o (IF n = Len(w.transitions) THEN Closer(w, "transition", "}") ELSE <<"}">>)

RenderVector(w) ==
  <<"\n", " ", "[">>
  \o (IF w.transitions = <<>> /\ w.style = "spaced" THEN <<" ">> ELSE <<>>)
  \o JoinWith([n \in 1..Len(w.transitions) |-> RenderTransitionDetailed(w, n)],
              <<"\n", " ", " ">>)
  \o Closer(w, "vector", "]")

RenderTransitionsKey(w, key) ==
  IF w.keys = "noTransitions" THEN <<>>
  ELSE IF w.keys = "notVector" THEN <<"\n", " ">> \o key \o <<" ", "nil">>
  ELSE <<"\n", " ">> \o key \o RenderVector(w)

RenderDetailed(w) ==
  IF w.style = "readme" THEN README_V2
  ELSE IF w.format = "v2"
  THEN <<"{">>
       \o (IF w.keys = "noMarker" THEN <<>> ELSE Field(K_processId, Keyword(<<>>, "p")))
       \o (IF w.keys = "noStates" THEN <<>>
           ELSE <<"\n", " ">> \o K_processStates \o <<" ", "#", "{">>
                \o JoinWith(<<StateKeyword(w, "a"), StateKeyword(w, "b"),
                              StateKeyword(w, "c")>>, <<" ">>)
                \o Closer(w, "states", "}"))
       \o RenderTransitionsKey(w, K_processTransitions)
       \o Closer(w, "document", "}")
  ELSE <<"{">>
       \o (IF w.keys = "noMarker" THEN <<>> ELSE K_formatV3)
       \o RenderTransitionsKey(w, K_transitions)
       \o Closer(w, "document", "}")

\* ------------------------------------------------------------------
\* home.tsx: the page
\* ------------------------------------------------------------------

MaxFiles == 2
MaxClock == 1

VARIABLES
  ednInput,        \* useState(''): the text of the input box
  graphData,       \* useState<GraphData | null>(null)
  error,           \* useState('')
  storedFiles,     \* useState<StoredFile[]>([])
  selectedFileId,  \* useState('')
  clock,           \* the last value Date.now() returned
  lastHandler,     \* history: the handler that ran last
  written,         \* the written document ednInput was rendered from, if any
  processData,     \* the TransactionProcess a layout run works on
  bfs,             \* queue, visited and levels of the layout's loop
  pc,              \* where the layout run is: "idle", "bfs" or "done"
  fileName,        \* useState(''): the text of the save dialog's File Name box
  showSaveModal,   \* useState(false): the save dialog is open
  saveFileSees,    \* the fileName in the closure of the memoized saveFile
  localStorage,    \* the item under the key 'sharetribe-edn-files'
  pending,         \* the effects and the re-render React has still to run
  openedWith,      \* history: the item localStorage had when the page was opened
  builder          \* the state of the Builder page, a record of its useState values

vars == <<ednInput, graphData, error, storedFiles, selectedFileId, clock,
          lastHandler, written, processData, bfs, pc,
          fileName, showSaveModal, saveFileSees, localStorage, pending, openedWith,
          builder>>

pageVars == <<ednInput, graphData, error, storedFiles, selectedFileId, clock, lastHandler>>
layoutVars == <<processData, bfs, pc>>
dialogVars == <<fileName, showSaveModal, saveFileSees>>
storageVars == <<localStorage, pending, openedWith>>

Null == [null |-> TRUE]
NoProcess == Process("none", <<>>, <<>>, <<>>)
NoBfs == BfsState(<<>>, {}, <<>>)

\* !text.trim()
IsBlank(text) == \A i \in 1..Len(text) : text[i] \in WS

\* The texts typed or pasted into the input box.
HomeInputs == {BLANK, README_V2, UNRECOGNIZED, NO_TRANSITIONS}

\* The page after its first render, with nothing in localStorage.
PageInit ==
  /\ ednInput = <<>>
  /\ graphData = Null
  /\ error = ""
  /\ storedFiles = <<>>
  /\ selectedFileId = ""
  /\ clock = 0
  /\ lastHandler = "mount"

LayoutIdle == processData = NoProcess /\ bfs = NoBfs /\ pc = "idle"

\* The save dialog after the first render: closed, its box empty, and
\* saveFile memoized with the empty fileName of that render.
DialogIdle == fileName = "" /\ showSaveModal = FALSE /\ saveFileSees = ""

\* JSON.stringify of a list of files, and the item of a key never set;
\* JSON.parse gives the list back, and throws on a text that is no JSON.
Stringify(files) == [json |-> files]
NoItem == [item |-> "null"]
NotJson == [text |-> "{oops"]
ParseItem(item) == IF DOMAIN item = {"json"} THEN Ok(item.json) ELSE Throw("SyntaxError")

\* builder.tsx, Builder: the values of its useState and useNodesState calls
\* after the first render.  null is written "".
NoSelection == ""
EdgeFormEmpty ==
  [transitionName |-> "", actor |-> "customer", actions |-> <<"">>,
   source |-> "", target |-> ""]
BuilderInit ==
  [nodes |-> <<>>, edges |-> <<>>, selectedNode |-> NoSelection,
   selectedEdge |-> NoSelection, showEdgeDialog |-> FALSE,
   edgeFormData |-> EdgeFormEmpty, isEditingEdge |-> FALSE,
   storedGraphs |-> <<>>, selectedGraphId |-> "", now |-> 0,
   lastHandler |-> "mount",
   openedBy |-> "none"]     \* history: the handler that last opened the
                            \* transition dialog

\* The page once its mount effects have run with nothing in localStorage:
\* the save effect has stored the empty list, and nothing is left to run.
StorageIdle ==
  /\ localStorage = Stringify(<<>>) /\ pending = <<>> /\ openedWith = NoItem
  /\ builder = BuilderInit

\* The steps React has still to run: the effect that loads the stored files,
\* the effect that saves storedFiles, and a render with a new storedFiles.  A
\* handler runs when none is left (React runs the effects of a render before
\* it handles the next event).
LoadEffect == [kind |-> "load", files |-> <<>>]
SaveEffect == [kind |-> "save", files |-> <<>>]
Rerender(files) == [kind |-> "render", files |-> files]

Settled == pending = <<>>

Init == PageInit /\ written = NoDocument /\ LayoutIdle /\ DialogIdle /\ StorageIdle

\* <Textarea onChange={(e) => setEdnInput(e.target.value)}>
SetEdnInput(text) ==
  /\ Settled
  /\ ednInput' = text
  /\ lastHandler' = "setEdnInput"
  /\ UNCHANGED <<graphData, error, storedFiles, selectedFileId, clock, written>>
  /\ UNCHANGED layoutVars
  /\ UNCHANGED builder
  /\ UNCHANGED dialogVars
  /\ UNCHANGED storageVars

\* handleVisualize with a fault: the catch branch forgets setGraphData(null).
HandleVisualizeKeepsGraph ==
  /\ Settled
  /\ ~IsBlank(ednInput)
  /\ LET parsedData == parseEdn(ednInput)
     IN  IF parsedData.ok
         THEN /\ graphData' = generateGraphData(parsedData.val)
              /\ error' = ""
         ELSE /\ error' = "Failed to parse EDN: " \o parsedData.err
              /\ graphData' = graphData
  /\ lastHandler' = "handleVisualize"
  /\ UNCHANGED <<ednInput, storedFiles, selectedFileId, clock, written>>
  /\ UNCHANGED layoutVars
  /\ UNCHANGED builder
  /\ UNCHANGED dialogVars
  /\ UNCHANGED storageVars

\* handleVisualize; its button is disabled while the input is blank.
HandleVisualize ==
  /\ Settled
  /\ ~IsBlank(ednInput)
  /\ LET parsedData == parseEdn(ednInput)
     IN  IF parsedData.ok
         THEN /\ graphData' = generateGraphData(parsedData.val)
              /\ error' = ""
         ELSE /\ error' = "Failed to parse EDN: " \o parsedData.err
              /\ graphData' = Null
  /\ lastHandler' = "handleVisualize"
  /\ UNCHANGED <<ednInput, storedFiles, selectedFileId, clock, written>>
  /\ UNCHANGED layoutVars
  /\ UNCHANGED builder
  /\ UNCHANGED dialogVars
  /\ UNCHANGED storageVars

LoadSampleEdn ==
  /\ Settled
  /\ ednInput' = DEFAULT_V3_EDN
  /\ error' = ""
  /\ graphData' = Null
  /\ selectedFileId' = ""
  /\ lastHandler' = "loadSampleEdn"
  /\ UNCHANGED <<storedFiles, clock, written>>
  /\ UNCHANGED layoutVars
  /\ UNCHANGED builder
  /\ UNCHANGED dialogVars
  /\ UNCHANGED storageVars

\* saveFile: Date.now() is read twice, for the name and then for the id.
SaveFile ==
  /\ Settled
  /\ ~IsBlank(ednInput)
  /\ Len(storedFiles) < MaxFiles
  /\ \E nameTime \in clock..MaxClock : \E idTime \in nameTime..MaxClock :
       LET newFile == [id |-> ToString(idTime),
                       name |-> "Process-" \o ToString(nameTime),
                       content |-> ednInput]
       IN  /\ storedFiles' = Append(storedFiles, newFile)
           /\ selectedFileId' = newFile.id
           /\ clock' = idTime
  /\ lastHandler' = "saveFile"
  /\ UNCHANGED <<ednInput, graphData, error, written>>
  /\ UNCHANGED layoutVars
  /\ UNCHANGED builder
  /\ UNCHANGED dialogVars
  /\ pending' = <<SaveEffect>>
  /\ UNCHANGED <<localStorage, openedWith>>

\* loadFile(file.id) of a listed file: storedFiles.find takes the first match.
LoadFile(fileId) ==
  /\ Settled
  /\ \E i \in 1..Len(storedFiles) : storedFiles[i].id = fileId
  /\ LET file == storedFiles[MinOf({i \in 1..Len(storedFiles) : storedFiles[i].id = fileId})]
     IN  ednInput' = file.content
  /\ selectedFileId' = fileId
  /\ error' = ""
  /\ graphData' = Null
  /\ lastHandler' = "loadFile"
  /\ UNCHANGED <<storedFiles, clock, written>>
  /\ UNCHANGED layoutVars
  /\ UNCHANGED builder
  /\ UNCHANGED dialogVars
  /\ UNCHANGED storageVars

\* deleteFile with a fault: the selection is kept when its file goes.
DeleteFileKeepsSelection(fileId) ==
  /\ Settled
  /\ \E i \in 1..Len(storedFiles) : storedFiles[i].id = fileId
  /\ storedFiles' = SelectSeq(storedFiles, LAMBDA f : f.id # fileId)
  /\ lastHandler' = "deleteFile"
  /\ pending' = <<SaveEffect>>
  /\ UNCHANGED <<ednInput, graphData, error, clock, written, selectedFileId>>
  /\ UNCHANGED <<localStorage, openedWith>>
  /\ UNCHANGED layoutVars
  /\ UNCHANGED builder
  /\ UNCHANGED dialogVars

\* deleteFile(file.id) of a listed file.
DeleteFile(fileId) ==
  /\ Settled
  /\ \E i \in 1..Len(storedFiles) : storedFiles[i].id = fileId
  /\ storedFiles' = SelectSeq(storedFiles, LAMBDA f : f.id # fileId)
  /\ selectedFileId' = IF selectedFileId = fileId THEN "" ELSE selectedFileId
  /\ lastHandler' = "deleteFile"
  /\ UNCHANGED <<ednInput, graphData, error, clock, written>>
  /\ UNCHANGED layoutVars
  /\ UNCHANGED builder
  /\ UNCHANGED dialogVars
  /\ pending' = <<SaveEffect>>
  /\ UNCHANGED <<localStorage, openedWith>>

\* newFileName.trim() of the names typed into the rename box.
NewFileNames == {" ", "mine", " mine "}
Trim(name) == IF name = " " THEN "" ELSE IF name = " mine " THEN "mine" ELSE name

\* saveFileName(file.id) of a listed file, with newFileName typed into the
\* rename box: every file with that id gets the trimmed name.
SaveFileName(fileId, newFileName) ==
  /\ Settled
  /\ \E i \in 1..Len(storedFiles) : storedFiles[i].id = fileId
  /\ Trim(newFileName) # ""
  /\ storedFiles' = [i \in 1..Len(storedFiles) |->
                       IF storedFiles[i].id = fileId
                       THEN [storedFiles[i] EXCEPT !.name = Trim(newFileName)]
                       ELSE storedFiles[i]]
  /\ pending' = <<SaveEffect>>
  /\ lastHandler' = "saveFileName"
  /\ UNCHANGED <<ednInput, graphData, error, selectedFileId, clock, written, localStorage,
                 openedWith>>
  /\ UNCHANGED layoutVars
  /\ UNCHANGED builder
  /\ UNCHANGED dialogVars

ClearAll ==
  /\ Settled
  /\ ednInput' = <<>>
  /\ graphData' = Null
  /\ error' = ""
  /\ selectedFileId' = ""
  /\ lastHandler' = "clearAll"
  /\ UNCHANGED <<storedFiles, clock, written>>
  /\ UNCHANGED layoutVars
  /\ UNCHANGED builder
  /\ UNCHANGED dialogVars
  /\ UNCHANGED storageVars

\* The save effect with a fault: it stores the storedFiles of the first
\* render, the empty list.
RunSaveEffectStale ==
  /\ pending # <<>> /\ Head(pending).kind = "save"
  /\ localStorage' = Stringify(<<>>)
  /\ pending' = Tail(pending)
  /\ UNCHANGED <<pageVars, written, openedWith>>
  /\ UNCHANGED layoutVars
  /\ UNCHANGED builder
  /\ UNCHANGED dialogVars

\* useEffect(..., [storedFiles]): localStorage.setItem(key,
\* JSON.stringify(storedFiles)), after a render in which storedFiles is new.
RunSaveEffect ==
  /\ pending # <<>> /\ Head(pending).kind = "save"
  /\ localStorage' = Stringify(storedFiles)
  /\ pending' = Tail(pending)
  /\ UNCHANGED <<pageVars, written, openedWith>>
  /\ UNCHANGED layoutVars
  /\ UNCHANGED builder
  /\ UNCHANGED dialogVars

FileIds == {ToString(t) : t \in 0..MaxClock}

Next ==
  \/ \E text \in HomeInputs : SetEdnInput(text)
  \/ HandleVisualize
  \/ LoadSampleEdn
  \/ SaveFile
  \/ \E fileId \in FileIds : LoadFile(fileId)
  \/ \E fileId \in FileIds : DeleteFile(fileId)
  \/ \E fileId \in FileIds : \E newFileName \in NewFileNames :
       SaveFileName(fileId, newFileName)
  \/ ClearAll
  \/ RunSaveEffect

Spec == Init /\ [][Next]_vars

\* ------------------------------------------------------------------
\* The page from its mount, with an item in localStorage or none
\* ------------------------------------------------------------------

\* A file stored by an earlier visit.
StoredEarlier(n) ==
  [id |-> ToString(0), name |-> "Process-" \o ToString(n), content |-> UNRECOGNIZED]

\* What localStorage has under the key when the page is opened.
StoredItems ==
  {NoItem, NotJson, Stringify(<<>>), Stringify(<<StoredEarlier(0)>>),
   Stringify(<<StoredEarlier(0), StoredEarlier(1)>>)}

\* The page after its first render: both effects are still to run.
InitMount ==
  /\ PageInit /\ written = NoDocument /\ LayoutIdle /\ DialogIdle
  /\ builder = BuilderInit
  /\ localStorage \in StoredItems
  /\ openedWith = localStorage
  /\ pending = <<LoadEffect, SaveEffect>>

\* useEffect(..., []): the stored item, when there is one and it parses, is
\* handed to setStoredFiles, which asks for a render after the effects.
RunLoadEffect ==
  /\ pending # <<>> /\ Head(pending).kind = "load"
  /\ LET files == ParseItem(localStorage)
     IN  pending' = IF localStorage # NoItem /\ files.ok
                    THEN Append(Tail(pending), Rerender(files.val))
                    ELSE Tail(pending)
  /\ UNCHANGED <<pageVars, written, localStorage, openedWith>>
  /\ UNCHANGED layoutVars
  /\ UNCHANGED builder
  /\ UNCHANGED dialogVars

\* The render setStoredFiles asked for: storedFiles is new, so the save
\* effect is run again.
RunRender ==
  /\ pending # <<>> /\ Head(pending).kind = "render"
  /\ storedFiles' = Head(pending).files
  /\ pending' = Append(Tail(pending), SaveEffect)
  /\ UNCHANGED <<ednInput, graphData, error, selectedFileId, clock, lastHandler, written,
                 localStorage, openedWith>>
  /\ UNCHANGED layoutVars
  /\ UNCHANGED builder
  /\ UNCHANGED dialogVars

NextMount ==
  \/ RunLoadEffect
  \/ RunRender
  \/ RunSaveEffect
  \/ \E text \in {BLANK, UNRECOGNIZED} : SetEdnInput(text)
  \/ SaveFile
  \/ \E fileId \in FileIds : LoadFile(fileId)
  \/ \E fileId \in FileIds : DeleteFile(fileId)
  \/ \E fileId \in FileIds : \E newFileName \in NewFileNames :
       SaveFileName(fileId, newFileName)

SpecMount == InitMount /\ [][NextMount]_vars

\* ------------------------------------------------------------------
\* The page with the save dialog
\* ------------------------------------------------------------------

\* The names typed into the File Name box.
FileNames == {"", " ", "mine", "other"}

\* fileName.trim() !== ""
IsBlankName(name) == name \in {"", " "}

\* useCallback(saveFile, [ednInput]): a render in which ednInput has changed
\* memoizes a new saveFile, which closes over the fileName of that render;
\* any other render keeps the saveFile it has.
Memoized(newEdnInput) == IF newEdnInput # ednInput THEN fileName ELSE saveFileSees

\* <Textarea onChange={(e) => setEdnInput(e.target.value)}>, which the open
\* dialog covers.
DialogSetEdnInput(text) ==
  /\ Settled
  /\ ~showSaveModal
  /\ ednInput' = text
  /\ saveFileSees' = Memoized(text)
  /\ lastHandler' = "setEdnInput"
  /\ UNCHANGED <<graphData, error, storedFiles, selectedFileId, clock, written>>
  /\ UNCHANGED <<fileName, showSaveModal>>
  /\ UNCHANGED layoutVars
  /\ UNCHANGED builder
  /\ UNCHANGED storageVars

\* loadSampleEdn, of the button beside the input box.
DialogLoadSampleEdn ==
  /\ Settled
  /\ ~showSaveModal
  /\ ednInput' = DEFAULT_V3_EDN
  /\ saveFileSees' = Memoized(DEFAULT_V3_EDN)
  /\ error' = ""
  /\ graphData' = Null
  /\ selectedFileId' = ""
  /\ lastHandler' = "loadSampleEdn"
  /\ UNCHANGED <<storedFiles, clock, written>>
  /\ UNCHANGED <<fileName, showSaveModal>>
  /\ UNCHANGED layoutVars
  /\ UNCHANGED builder
  /\ UNCHANGED storageVars

\* <Dialog open={showSaveModal} onOpenChange={setSaveModal}>: the Save
\* button of the page opens the dialog; Escape or a click outside closes it.
SetSaveModal(open) ==
  /\ Settled
  /\ showSaveModal # open
  /\ showSaveModal' = open
  /\ lastHandler' = "setSaveModal"
  /\ UNCHANGED <<ednInput, graphData, error, storedFiles, selectedFileId, clock, written>>
  /\ UNCHANGED <<fileName, saveFileSees>>
  /\ UNCHANGED layoutVars
  /\ UNCHANGED builder
  /\ UNCHANGED storageVars

\* <input id="fileName" onChange={(e) => setFileName(e.target.value)}>
SetFileName(name) ==
  /\ Settled
  /\ showSaveModal
  /\ fileName' = name
  /\ lastHandler' = "setFileName"
  /\ UNCHANGED <<ednInput, graphData, error, storedFiles, selectedFileId, clock, written>>
  /\ UNCHANGED <<showSaveModal, saveFileSees>>
  /\ UNCHANGED layoutVars
  /\ UNCHANGED builder
  /\ UNCHANGED storageVars

\* The fileName the saveFile of the dialog's button reads.
NameSeen == saveFileSees

\* saveFile, of the dialog's Save button (disabled while the input is
\* blank): Date.now() is read for the generated name and then for the id.
DialogSaveFile ==
  /\ Settled
  /\ showSaveModal
  /\ ~IsBlank(ednInput)
  /\ Len(storedFiles) < MaxFiles
  /\ \E nameTime \in clock..MaxClock : \E idTime \in nameTime..MaxClock :
       LET name == IF ~IsBlankName(NameSeen) THEN NameSeen
                   ELSE "Process-" \o ToString(nameTime)
           newFile == [id |-> ToString(idTime), name |-> name, content |-> ednInput]
       IN  /\ storedFiles' = Append(storedFiles, newFile)
           /\ selectedFileId' = newFile.id
           /\ clock' = idTime
  /\ showSaveModal' = FALSE
  /\ lastHandler' = "saveFile"
  /\ UNCHANGED <<ednInput, graphData, error, written>>
  /\ UNCHANGED <<fileName, saveFileSees>>
  /\ UNCHANGED layoutVars
  /\ UNCHANGED builder
  /\ pending' = <<SaveEffect>>
  /\ UNCHANGED <<localStorage, openedWith>>

DialogInputs == {BLANK, README_V2, UNRECOGNIZED}

NextDialog ==
  \/ \E text \in DialogInputs : DialogSetEdnInput(text)
  \/ DialogLoadSampleEdn
  \/ \E open \in BOOLEAN : SetSaveModal(open)
  \/ \E name \in FileNames : SetFileName(name)
  \/ DialogSaveFile
  \/ RunSaveEffect

SpecDialog == Init /\ [][NextDialog]_vars

\* ------------------------------------------------------------------
\* The pipeline on written documents: the page with a document's text in
\* its input box, and the Visualize button
\* ------------------------------------------------------------------

InitPipeline ==
  /\ written \in Written
  /\ ednInput = Render(written)
  /\ graphData = Null
  /\ error = ""
  /\ storedFiles = <<>>
  /\ selectedFileId = ""
  /\ clock = 0
  /\ lastHandler = "setEdnInput"
  /\ LayoutIdle
  /\ DialogIdle
  /\ StorageIdle

NextPipeline == HandleVisualize

SpecPipeline == InitPipeline /\ [][NextPipeline]_vars

\* ------------------------------------------------------------------
\* The pipeline on detailed documents
\* ------------------------------------------------------------------

InitDetails ==
  /\ written \in Details
  /\ ednInput = RenderDetailed(written)
  /\ graphData = Null
  /\ error = ""
  /\ storedFiles = <<>>
  /\ selectedFileId = ""
  /\ clock = 0
  /\ lastHandler = "setEdnInput"
  /\ LayoutIdle
  /\ DialogIdle
  /\ StorageIdle

NextDetails == HandleVisualize

SpecDetails == InitDetails /\ [][NextDetails]_vars

\* ------------------------------------------------------------------
\* A layout run, one iteration of the breadth-first loop at a time
\* ------------------------------------------------------------------

MaxLayoutTransitions == 3

LayoutStates == {<<"a">>, <<"b">>, <<"c">>}
NoState == <<>>

\* What parseV3Transition returns for  {:name :transition/tn :actor
\* :actor.role/customer :from :state/f :to :state/t }  (from, to: NoState
\* when the key is not written).
TransitionV3(n, from, to) ==
  [name |-> <<"transition/", TransitionNames[n]>>,
   hasActor |-> TRUE, actor |-> <<"customer">>,
   hasTo |-> to # NoState, to |-> to,
   hasFrom |-> from # NoState, from |-> from,
   hasActions |-> FALSE, actions |-> <<>>]

\* What parseTransition returns for  {:transition/id :tn :transition/from f
\* :transition/to :t :transition/actor :actor.role/customer }  (from: the
\* array of a set, or the one-element array that stands for a single state).
TransitionV2(n, from, to) ==
  [id |-> <<TransitionNames[n]>>,
   fromIsArray |-> Len(from) > 1, from |-> from,
   to |-> to,
   actor |-> <<"actor.role/", "customer">>,
   hasActions |-> FALSE, actions |-> <<>>,
   hasNotifications |-> FALSE, notifications |-> <<>>]

EndsV3 == (LayoutStates \cup {NoState}) \X (LayoutStates \cup {NoState})
EndsV2 == ({<<s>> : s \in LayoutStates} \cup {<<<<"a">>, <<"b">>>>}) \X LayoutStates

DeclaredStates ==
  {<<<<"a">>, <<"b">>, <<"c">>>>, <<<<"a">>, <<"b">>>>, <<<<"a">>, <<"a">>, <<"b">>>>}

LayoutInputsV3 ==
  {Process("v3", <<>>, <<>>, [n \in DOMAIN ends |-> TransitionV3(n, ends[n][1], ends[n][2])]) :
     ends \in SeqsUpTo(EndsV3, MaxLayoutTransitions) \ {<<>>}}

LayoutInputsV2 ==
  {Process("v2", <<"p">>, states,
           [n \in DOMAIN ends |-> TransitionV2(n, ends[n][1], ends[n][2])]) :
     states \in DeclaredStates, ends \in SeqsUpTo(EndsV2, MaxLayoutTransitions)}

\* The states generateGraphData lays out, in node order.
LayoutStatesOf(process) ==
  IF process.format = "v3"
  THEN StateSetV3(process.transitions,
                  IF \E n \in DOMAIN process.transitions :
                        ~(process.transitions[n].hasFrom /\ Truthy(process.transitions[n].from))
                  THEN <<INITIAL>> ELSE <<>>)
  ELSE process.states

InitLayout == PageInit /\ written = NoDocument /\ LayoutIdle /\ DialogIdle /\ StorageIdle

\* generateGraphData is called with a process, and the layout function of its
\* shape is entered: queue, visited and levels are set up.
CallLayout ==
  /\ pc = "idle"
  /\ \E process \in LayoutInputsV3 \cup LayoutInputsV2 :
       /\ processData' = process
       /\ bfs' = IF process.format = "v3" THEN BfsInitV3
                 ELSE BfsInitV2(process.transitions, process.states)
  /\ pc' = "bfs"
  /\ UNCHANGED written
  /\ UNCHANGED pageVars
  /\ UNCHANGED dialogVars
  /\ UNCHANGED builder
  /\ UNCHANGED storageVars

\* while (queue.length > 0) { ... } of getImprovedTreePosition, once round.
StepV3 ==
  /\ pc = "bfs"
  /\ processData.format = "v3"
  /\ bfs.queue # <<>>
  /\ bfs' = BfsStepV3(processData.transitions, bfs)
  /\ UNCHANGED <<processData, pc, written>>
  /\ UNCHANGED pageVars
  /\ UNCHANGED dialogVars
  /\ UNCHANGED builder
  /\ UNCHANGED storageVars

\* while (queue.length > 0) { ... } of getVerticalTreePositionV2, once round.
StepV2 ==
  /\ pc = "bfs"
  /\ processData.format = "v2"
  /\ bfs.queue # <<>>
  /\ bfs' = BfsStepV2(processData.transitions, bfs)
  /\ UNCHANGED <<processData, pc, written>>
  /\ UNCHANGED pageVars
  /\ UNCHANGED dialogVars
  /\ UNCHANGED builder
  /\ UNCHANGED storageVars

\* The loop has ended: every state is placed from the levels it left, and
\* the graph is handed to the page.
Finish ==
  /\ pc = "bfs"
  /\ bfs.queue = <<>>
  /\ LET states == LayoutStatesOf(processData)
     IN  graphData' =
           [nodes |-> [n \in 1..Len(states) |->
                         Node(states[n],
                              IF processData.format = "v3"
                              THEN PlaceV3(states[n], states, bfs.levels)
                              ELSE PlaceV2(states[n], states, bfs.levels))],
            edges |-> IF processData.format = "v3"
                      THEN EdgesV3(processData.transitions, 0)
                      ELSE EdgesV2(processData.transitions)]
  /\ pc' = "done"
  /\ UNCHANGED <<processData, bfs, written>>
  /\ UNCHANGED <<ednInput, error, storedFiles, selectedFileId, clock, lastHandler>>
  /\ UNCHANGED dialogVars
  /\ UNCHANGED builder
  /\ UNCHANGED storageVars

NextLayout == CallLayout \/ StepV3 \/ StepV2 \/ Finish

SpecLayout == InitLayout /\ [][NextLayout]_vars

\* The stepped run ends with the graph generateGraphData returns.
LayoutAgrees == pc = "done" => graphData = generateGraphData(processData)

\* ------------------------------------------------------------------
\* Properties
\* ------------------------------------------------------------------

HasGraph == graphData # Null
Visualized == lastHandler = "handleVisualize"
NodeIds == {graphData.nodes[n].id : n \in DOMAIN graphData.nodes}
NodesWithId(id) == {n \in DOMAIN graphData.nodes : graphData.nodes[n].id = id}

\* The id the parser gives the n-th written transition.
WrittenId(n) ==
  IF written.format = "v3" THEN <<"transition/", TransitionNames[n]>>
  ELSE <<TransitionNames[n]>>
EdgesOf(n) == {k \in DOMAIN graphData.edges : graphData.edges[k].transitionId = WrittenId(n)}
LacksTo(n) == written.transitions[n].to = Absent
LacksFrom(n) ==
  IF written.format = "v3" THEN written.transitions[n].from = Absent
  ELSE written.transitions[n].from.kind = "none"

\* C1: in the graph of either shape, the source and the target of every edge
\* is the id of a node of the graph, also when a state is named only in a
\* transition's from or to.
C1_EdgesClosed ==
  (Visualized /\ HasGraph) =>
    \A k \in DOMAIN graphData.edges :
      graphData.edges[k].source \in NodeIds /\ graphData.edges[k].target \in NodeIds

C3_GraphOrError ==
  /\ ~(HasGraph /\ error # "")
  /\ Visualized =>
       LET parsedData == parseEdn(ednInput)
       IN  IF parsedData.ok
           THEN error = "" /\ HasGraph /\ graphData = generateGraphData(parsedData.val)
           ELSE graphData = Null /\ error # ""

\* A visualize has failed on a page that holds a stored file: the error is
\* shown and the graph is gone.
C3_Witness ==
  /\ Visualized
  /\ error # ""
  /\ graphData = Null
  /\ storedFiles # <<>>

\* ------------------------------------------------------------------
\* Properties of the layout
\* ------------------------------------------------------------------

\* The states the loop starts from: the synthetic start of the modern shape;
\* in the legacy shape the declared states no transition leads to.
TraversalStart(process) ==
  IF process.format = "v3" THEN {INITIAL}
  ELSE {s \in Range(process.states) :
          \A n \in DOMAIN process.transitions : process.transitions[n].to # s}

\* The roots of a process: the synthetic start state alone when a transition
\* without from gives the model one, and else the states no transition leads
\* to.
Roots(process) ==
  IF process.format = "v3"
     /\ \E n \in DOMAIN process.transitions : ~process.transitions[n].hasFrom
  THEN {INITIAL}
  ELSE {s \in Range(LayoutStatesOf(process)) :
          \A n \in DOMAIN process.transitions : process.transitions[n].to # s}

\* The states one transition away from a state of S.
Successors(process, S) ==
  IF process.format = "v3"
  THEN {process.transitions[n].to : n \in
          {m \in DOMAIN process.transitions :
             /\ process.transitions[m].hasTo
             /\ (IF process.transitions[m].hasFrom
                 THEN process.transitions[m].from ELSE INITIAL) \in S}}
  ELSE {process.transitions[n].to : n \in
          {m \in DOMAIN process.transitions :
             \E f \in DOMAIN process.transitions[m].from :
                process.transitions[m].from[f] \in S}}

RECURSIVE Within(_, _, _)
\* The states at most k transitions away from a state of roots.
Within(process, roots, k) ==
  IF k = 0 THEN roots
  ELSE Within(process, roots, k - 1)
       \cup Successors(process, Within(process, roots, k - 1))

\* No shortest path is longer than the number of states there are.
Farthest == Cardinality(LayoutStates) + 1
Reachable(process, roots, s) == s \in Within(process, roots, Farthest)
Distance(process, roots, s) ==
  MinOf({k \in 0..Farthest : s \in Within(process, roots, k)})

\* The y of layer number layer in the layout of process.
LayerY(process, layer) ==
  IF process.format = "v3" THEN layer * 180 + 100 ELSE layer * 150 + 50

\* The states a layout run can meet: the start state, the declared states and
\* every from and to of a transition.
StatesMet(process) ==
  {INITIAL} \cup Range(process.states)
  \cup {process.transitions[n].to : n \in DOMAIN process.transitions}
  \cup (IF process.format = "v3"
        THEN {process.transitions[n].from : n \in DOMAIN process.transitions}
        ELSE UNION {Range(process.transitions[n].from) : n \in DOMAIN process.transitions})

\* What a round of the loop makes smaller: the states not yet visited come
\* first, the length of the queue second (a round that visits a state adds at
\* most one queue entry per transition).
LoopMeasure(process, st) ==
  Cardinality(StatesMet(process) \ st.visited) * (Len(process.transitions) + 1)
  + Len(st.queue)

\* The loop state one round after st.
Round(process, st) ==
  IF process.format = "v3" THEN BfsStepV3(process.transitions, st)
  ELSE BfsStepV2(process.transitions, st)

\* C4: the layout gives every node a layer that is a non-negative integer and
\* finite coordinates x and y, cyclic graphs included.
C4_FiniteLayers ==
  pc = "done" =>
    \A n \in DOMAIN graphData.nodes :
      /\ graphData.nodes[n].x # NegInfinity
      /\ \E layer \in 0..Farthest : graphData.nodes[n].y = LayerY(processData, layer)

\* C5: the breadth-first loop of getImprovedTreePosition and of
\* getVerticalTreePositionV2 ends, whatever the (finite) process.
\* That is: in every state the loop can be in, a round that is still to run
\* (the queue is not empty) makes a natural number smaller, so the rounds run
\* out and the loop is left.
C5_LoopEnds ==
  pc = "bfs" =>
    /\ LoopMeasure(processData, bfs) \in Nat
    /\ bfs.queue # <<>> =>
         LoopMeasure(processData, Round(processData, bfs)) < LoopMeasure(processData, bfs)

\* The loop has ended on a process in which two states lead to each other,
\* after it went through both.
C5_Witness ==
  /\ pc = "done"
  /\ \E s \in LayoutStates : \E t \in LayoutStates \ {s} :
       /\ {s, t} \subseteq bfs.visited
       /\ t \in Successors(processData, {s})
       /\ s \in Successors(processData, {t})

\* C6: a state that can be reached from a root gets the layer that is the
\* length of a shortest path to it from the nearest root; a root gets layer 0.
C6_ShortestPathLayers ==
  pc = "done" =>
    \A n \in DOMAIN graphData.nodes :
      Reachable(processData, Roots(processData), graphData.nodes[n].id) =>
        graphData.nodes[n].y =
          LayerY(processData,
                 Distance(processData, Roots(processData), graphData.nodes[n].id))

\* What the loop does achieve: a state that can be reached from a state the
\* loop starts from is on the layer of its shortest path from there.
LayersFromTraversalStart ==
  pc = "done" =>
    \A n \in DOMAIN graphData.nodes :
      Reachable(processData, TraversalStart(processData), graphData.nodes[n].id) =>
        graphData.nodes[n].y =
          LayerY(processData,
                 Distance(processData, TraversalStart(processData), graphData.nodes[n].id))

\* C7: no two nodes of different states are placed at the same (x, y), also
\* when two or more states cannot be reached.
C7_NoOverlap ==
  pc = "done" =>
    \A m \in DOMAIN graphData.nodes : \A n \in DOMAIN graphData.nodes :
      graphData.nodes[m].id # graphData.nodes[n].id =>
        <<graphData.nodes[m].x, graphData.nodes[m].y>>
          # <<graphData.nodes[n].x, graphData.nodes[n].y>>

\* ------------------------------------------------------------------
\* Properties of the graph of a written document
\* ------------------------------------------------------------------

\* C8: a legacy transition written with a set of n from-states yields n
\* edges, their sources the n states, all with the transition's target, id,
\* actor, actions and notifications.
C8_OneEdgePerFromState ==
  (Visualized /\ HasGraph /\ written.format = "v2") =>
    \A n \in DOMAIN written.transitions :
      (written.transitions[n].from.kind = "set" /\ ~LacksTo(n)) =>
        LET members == {<<written.transitions[n].from.names[i]>> :
                          i \in DOMAIN written.transitions[n].from.names}
            edges == graphData.edges
        IN  /\ Cardinality(EdgesOf(n)) = Cardinality(members)
            /\ {edges[k].source : k \in EdgesOf(n)} = members
            /\ \A k \in EdgesOf(n) : \A l \in EdgesOf(n) :
                 /\ k # l => edges[k].source # edges[l].source
                 /\ edges[k].target = <<written.transitions[n].to>>
                 /\ edges[k].target = edges[l].target
                 /\ edges[k].actor = edges[l].actor
                 /\ edges[k].actions = edges[l].actions
                 /\ edges[k].notifications = edges[l].notifications

\* C9: no two nodes of a graph have the same id, also when the declared state
\* set names a state twice.
C9_UniqueNodeIds ==
  (Visualized /\ HasGraph) =>
    \A m \in DOMAIN graphData.nodes : \A n \in DOMAIN graphData.nodes :
      m # n => graphData.nodes[m].id # graphData.nodes[n].id

EdgesOfDetailed(n) ==
  {k \in DOMAIN graphData.edges :
     graphData.edges[k].transitionId =
       IF written.format = "v3" THEN <<"transition/", written.transitions[n].id>>
       ELSE <<written.transitions[n].id>>}

FixedColours == {"#F97316", "#EC4899", "#10B981", "#6B7280"}

\* C11: the colour of every edge of a graph, which getActorColor derives
\* from the transition's actor, is one of the fixed colours: orange for
\* customer, pink for provider, green for operator, gray for system and gray
\* for every other actor.
C11_ColourIsFixed ==
  (Visualized /\ HasGraph) =>
    \A k \in DOMAIN graphData.edges : graphData.edges[k].stroke \in FixedColours

LacksActor(n) ==
  written.transitions[n].actor = NoActor /\ written.transitions[n].actorAgain = NoActor

\* C12: a transition written without an actor is accepted in both shapes:
\* visualizing the document gives a graph in which the transition has an
\* edge, and its edges carry the actor system.
C12_NoActorIsSystem ==
  Visualized =>
    \A n \in DOMAIN written.transitions :
      LacksActor(n) =>
        /\ HasGraph
        /\ EdgesOfDetailed(n) # {}
        /\ \A k \in EdgesOfDetailed(n) : graphData.edges[k].actor = SYSTEM

\* The modern shape alone does as C12 says.
NoActorIsSystemV3 ==
  (Visualized /\ written.format = "v3") =>
    \A n \in DOMAIN written.transitions :
      LacksActor(n) =>
        /\ HasGraph
        /\ EdgesOfDetailed(n) # {}
        /\ \A k \in EdgesOfDetailed(n) : graphData.edges[k].actor = SYSTEM

Namespaces == {"state/", "actor.role/", "action/", "notification/"}
Bare(str) == \A n \in DOMAIN str : str[n] \notin Namespaces

\* C14: in the payload of every edge, of either shape, the from and to state,
\* the actor, the action names and the notification names are bare names:
\* none has kept its namespace prefix (state/, actor.role/, action/,
\* notification/), so that :actor.role/customer gives customer and :state/x
\* gives x.
C14_PayloadIsBare ==
  (Visualized /\ HasGraph) =>
    \A k \in DOMAIN graphData.edges :
      LET edge == graphData.edges[k]
      IN  /\ Bare(edge.from) /\ Bare(edge.to) /\ Bare(edge.source) /\ Bare(edge.target)
          /\ Bare(edge.actor)
          /\ \A a \in DOMAIN edge.actions : Bare(edge.actions[a])
          /\ \A a \in DOMAIN edge.notifications : Bare(edge.notifications[a])

\* The modern shape alone does as C14 says.
PayloadIsBareV3 == written.format = "v3" => C14_PayloadIsBare

\* In the legacy shape the action and notification names are bare.
ActionsAreBareV2 ==
  (Visualized /\ HasGraph /\ written.format = "v2") =>
    \A k \in DOMAIN graphData.edges :
      LET edge == graphData.edges[k]
      IN  /\ \A a \in DOMAIN edge.actions : Bare(edge.actions[a])
          /\ \A a \in DOMAIN edge.notifications : Bare(edge.notifications[a])

RepeatsTo(n) == written.transitions[n].toAgain # Absent
RepeatsActor(n) ==
  written.transitions[n].actor # NoActor /\ written.transitions[n].actorAgain # NoActor
Names(str) == {str[n] : n \in DOMAIN str}

\* C15: when a transition map writes a key twice, the value of the later
\* one is used: the edge of a transition with two destinations goes to the
\* second, and the edge of a transition with two actors carries the second.
C15_LaterValueUsed ==
  (Visualized /\ HasGraph) =>
    \A n \in DOMAIN written.transitions :
      \A k \in EdgesOfDetailed(n) :
        /\ RepeatsTo(n) => written.transitions[n].toAgain \in Names(graphData.edges[k].target)
        /\ RepeatsActor(n) =>
             Names(written.transitions[n].actorAgain) \subseteq Names(graphData.edges[k].actor)

\* What the parsers do: the value of the first one is used.
FirstValueUsed ==
  (Visualized /\ HasGraph /\ Len(written.transitions) = 1) =>
    \A n \in DOMAIN written.transitions :
      \A k \in EdgesOfDetailed(n) :
        /\ written.transitions[n].to \in Names(graphData.edges[k].target)
        /\ written.transitions[n].actor # NoActor =>
             StripPrefix(written.transitions[n].actor, "actor.role/")
               = StripPrefix(SelectSeq(graphData.edges[k].actor,
                                       LAMBDA x : x \notin {"}", "]", ","}), "actor.role/")

\* The document has a delimiter left out or replaced (the modern shape has
\* no states set to damage).
Damaged ==
  /\ written.damage.place # "none"
  /\ written.damage.place = "states" => written.format = "v2"

\* C16: a document in which an opening delimiter has no closing delimiter,
\* or in which a closing delimiter is not the one of the innermost open
\* delimiter, is rejected: visualizing it gives an error and no graph.
C16_UnbalancedRejected ==
  (Visualized /\ Damaged) => (graphData = Null /\ error # "")

\* What parseEdn does reject: a modern document whose :transitions vector
\* is not closed by a bracket.
OpenVectorRejectedV3 ==
  (Visualized /\ written.format = "v3" /\ written.damage.place = "vector") =>
    (graphData = Null /\ error = "Failed to parse EDN: Missing or invalid :transitions")

\* The document shows neither :format :v3 nor :process/id together with
\* :process/states.
ShowsNoShape ==
  \/ written.keys = "noMarker"
  \/ written.format = "v2" /\ written.keys = "noStates"

\* The legacy document has its id and its states and no transitions vector.
LacksTransitionsV2 ==
  written.format = "v2" /\ written.keys \in {"noTransitions", "notVector"}

\* C17: visualizing a document that shows neither the modern marker nor the
\* legacy keys fails with the error of an unrecognized format and no graph;
\* visualizing a legacy document without a :process/transitions vector fails
\* with an error that names :process/transitions, and no graph.
C17_UnrecognizedFails ==
  /\ (Visualized /\ ShowsNoShape) =>
       /\ graphData = Null
       /\ error = "Failed to parse EDN: Unrecognized EDN format. "
                  \o "Please provide a valid Sharetribe transaction process."
  /\ (Visualized /\ LacksTransitionsV2) =>
       /\ graphData = Null
       /\ error = "Failed to parse EDN: Missing or invalid :process/transitions"

\* A document with a transitions vector and no marker, visualized and
\* refused.
C17_Witness ==
  /\ Visualized /\ written.keys = "noMarker" /\ Len(written.transitions) = 2
  /\ graphData = Null /\ error # ""

\* C18: the edge ids of a generated graph are pairwise distinct, for every
\* accepted document of either shape.
C18_EdgeIdsDistinct ==
  (Visualized /\ HasGraph) =>
    \A k, l \in DOMAIN graphData.edges :
      k # l => graphData.edges[k].id # graphData.edges[l].id

\* The modern shape alone does as C18 says: its edge ids end with the
\* index of the transition.
EdgeIdsDistinctV3 == written.format = "v3" => C18_EdgeIdsDistinct

\* A name as the model holds it, without the prefix C14 is about.
Unprefixed(str) == StripPrefix(StripPrefix(str, "actor.role/"), "state/")

\* C19: for a legacy document, the id, destination and actor of every edge
\* are the keyword names as written, whatever follows the keyword (a blank,
\* a comma or a closing delimiter); the example of the README gives an
\* orange edge of actor customer to pending.
C19_NamesAsWritten ==
  (Visualized /\ HasGraph /\ written.format = "v2" /\ ~Damaged) =>
    /\ \A k \in DOMAIN graphData.edges :
         \E n \in DOMAIN written.transitions :
           /\ graphData.edges[k].transitionId = <<written.transitions[n].id>>
           /\ Unprefixed(graphData.edges[k].target)
                \in {<<written.transitions[n].to>>, <<written.transitions[n].toAgain>>}
           /\ Unprefixed(graphData.edges[k].actor)
                \in {Unprefixed(written.transitions[n].actor),
                     Unprefixed(written.transitions[n].actorAgain)}
    /\ written = DetailedReadme =>
         /\ Len(graphData.edges) = 1
         /\ graphData.edges[1].stroke = "#F97316"
         /\ graphData.edges[1].target = <<"pending">>

\* The part of C19 about the README: its example gives an orange edge.
ReadmeIsOrange ==
  (Visualized /\ written = DetailedReadme) =>
    (HasGraph /\ Len(graphData.edges) = 1 /\ graphData.edges[1].stroke = "#F97316")

\* What the README's example gives: one edge to pending, whose actor has
\* kept the closing brace and whose colour is the default gray.
ReadmeIsGray ==
  (Visualized /\ written = DetailedReadme) =>
    /\ HasGraph /\ Len(graphData.edges) = 1
    /\ graphData.edges[1].target = <<"pending">>
    /\ graphData.edges[1].actor = <<"actor.role/", "customer", "}">>
    /\ graphData.edges[1].stroke = "#6B7280"

\* With a blank after every value, the names are as written.
NamesAsWrittenSpaced ==
  written.style = "spaced" => C19_NamesAsWritten

\* ------------------------------------------------------------------
\* Properties of the save dialog
\* ------------------------------------------------------------------

Saved == lastHandler = "saveFile" /\ storedFiles # <<>>
NewFile == storedFiles[Len(storedFiles)]
GeneratedNames == {"Process-" \o ToString(t) : t \in 0..MaxClock}

\* C20: the file the save dialog has just stored has the name in the File
\* Name box when that name is not blank, and a generated Process-<timestamp>
\* name only when it is blank, in whatever order the EDN text and the file
\* name were last edited.
C20_SavedUnderEnteredName ==
  Saved =>
    /\ ~IsBlankName(fileName) => NewFile.name = fileName
    /\ IsBlankName(fileName) => NewFile.name \in GeneratedNames

\* What saveFile does: the name is the one in the box when the EDN text
\* last changed.
SavedUnderNameSeen ==
  Saved =>
    /\ ~IsBlankName(saveFileSees) => NewFile.name = saveFileSees
    /\ IsBlankName(saveFileSees) => NewFile.name \in GeneratedNames

\* ------------------------------------------------------------------
\* Properties of the stored files
\* ------------------------------------------------------------------

OpenedWithList == DOMAIN openedWith = {"json"}

\* C21: once the effects and the render of the mount have run, storedFiles
\* is the list the page was opened with, when there was a valid one, and
\* localStorage holds it again; and whenever the effects of a later save,
\* rename or delete have run, localStorage holds exactly storedFiles.
C21_StoredFilesSurvive ==
  Settled =>
    /\ localStorage = Stringify(storedFiles)
    /\ (lastHandler = "mount" /\ OpenedWithList) =>
         (storedFiles = openedWith.json /\ localStorage = openedWith)

\* The page opened with two stored files, all of the mount run.
C21_Witness ==
  /\ Settled /\ lastHandler = "mount"
  /\ OpenedWithList /\ Len(openedWith.json) = 2
  /\ storedFiles = openedWith.json

\* Between the first save effect and the render that follows, the stored
\* list is not in localStorage: the effect has written the empty list.
ListAlwaysStored ==
  (OpenedWithList /\ lastHandler = "mount") => localStorage = openedWith

StoredIds == {storedFiles[i].id : i \in DOMAIN storedFiles}

\* C29: after any sequence of save, load, rename, delete, load-sample and
\* clear-all, selectedFileId is empty or the id of a file in storedFiles.
C29_SelectedFileIsStored ==
  selectedFileId = "" \/ selectedFileId \in StoredIds

\* A file is selected and another file, stored with it, has been deleted.
C29_Witness ==
  /\ lastHandler = "deleteFile"
  /\ selectedFileId # "" /\ selectedFileId \in StoredIds


\* ---------------------------------------------------------------------------
\* The graph builder page (builder.tsx).  Every handler is one action on the
\* record builder; Date.now() is the field now, which grows between two
\* handlers a person starts.
\* ---------------------------------------------------------------------------
MaxNow == 3
MaxGraphs == 1
NodeLabels == {"pending"}
NamesTyped == {" ", "accept", "decline"}
ActorsChosen == {"customer", "provider"}
ActionNames == {"", "charge"}

BuilderNodeIds == {builder.nodes[i].id : i \in 1..Len(builder.nodes)}
BuilderEdgeIds == {builder.edges[i].id : i \in 1..Len(builder.edges)}
BuilderGraphIds == {builder.storedGraphs[i].id : i \in 1..Len(builder.storedGraphs)}
DateNow == builder.now + 1
EdgeFound(edgeId) ==
  builder.edges[CHOOSE i \in 1..Len(builder.edges) :
                  /\ builder.edges[i].id = edgeId
                  /\ \A j \in 1..(i - 1) : builder.edges[j].id # edgeId]
GraphFound(graphId) ==
  builder.storedGraphs[CHOOSE i \in 1..Len(builder.storedGraphs) :
                  /\ builder.storedGraphs[i].id = graphId
                  /\ \A j \in 1..(i - 1) : builder.storedGraphs[j].id # graphId]
NonBlankAction(action) == action # ""

\* addNode, with the node dialog opened, the label typed and Add pressed.
AddNode(label) ==
  /\ ~builder.showEdgeDialog
  /\ DateNow <= MaxNow
  /\ builder' = [builder EXCEPT
       !.nodes = Append(@, [id |-> ToString(DateNow), label |-> label]),
       !.now = DateNow,
       !.lastHandler = "addNode"]
  /\ UNCHANGED <<pageVars, written, layoutVars, dialogVars>>
  /\ UNCHANGED <<localStorage, pending, openedWith>>

OnNodeClick(nodeId) ==
  /\ ~builder.showEdgeDialog
  /\ nodeId \in BuilderNodeIds
  /\ builder' = [builder EXCEPT !.selectedNode = nodeId,
                                !.selectedEdge = NoSelection,
                                !.lastHandler = "onNodeClick"]
  /\ UNCHANGED <<pageVars, written, layoutVars, dialogVars>>
  /\ UNCHANGED <<localStorage, pending, openedWith>>

OnEdgeClick(edgeId) ==
  /\ ~builder.showEdgeDialog
  /\ edgeId \in BuilderEdgeIds
  /\ builder' = [builder EXCEPT !.selectedEdge = edgeId,
                                !.selectedNode = NoSelection,
                                !.lastHandler = "onEdgeClick"]
  /\ UNCHANGED <<pageVars, written, layoutVars, dialogVars>>
  /\ UNCHANGED <<localStorage, pending, openedWith>>

\* deleteNode; its button is rendered for the selected node only.
DeleteNode ==
  /\ ~builder.showEdgeDialog
  /\ builder.selectedNode # NoSelection
  /\ LET Others(node) == node.id # builder.selectedNode
         Apart(edge) == /\ edge.source # builder.selectedNode
                        /\ edge.target # builder.selectedNode
     IN  builder' = [builder EXCEPT
           !.nodes = SelectSeq(@, Others),
           !.edges = SelectSeq(@, Apart),
           !.selectedNode = NoSelection,
           !.lastHandler = "deleteNode"]
  /\ UNCHANGED <<pageVars, written, layoutVars, dialogVars>>
  /\ UNCHANGED <<localStorage, pending, openedWith>>

\* The dialog's trigger button "Add Transition": onOpenChange(true).
OpenEdgeDialog ==
  /\ ~builder.showEdgeDialog
  /\ builder' = [builder EXCEPT !.showEdgeDialog = TRUE,
                                !.openedBy = "openEdgeDialog",
                                !.lastHandler = "openEdgeDialog"]
  /\ UNCHANGED <<pageVars, written, layoutVars, dialogVars>>
  /\ UNCHANGED <<localStorage, pending, openedWith>>

\* The dialog's Cancel button, and onOpenChange(false).
CancelEdgeDialog ==
  /\ builder.showEdgeDialog
  /\ builder' = [builder EXCEPT !.showEdgeDialog = FALSE,
                                !.lastHandler = "cancelEdgeDialog"]
  /\ UNCHANGED <<pageVars, written, layoutVars, dialogVars>>
  /\ UNCHANGED <<localStorage, pending, openedWith>>

\* onConnect: a connection dragged between two nodes of the canvas.
OnConnect(source, target) ==
  /\ ~builder.showEdgeDialog
  /\ source \in BuilderNodeIds /\ target \in BuilderNodeIds
  /\ builder' = [builder EXCEPT
       !.edgeFormData = [@ EXCEPT !.source = source, !.target = target],
       !.showEdgeDialog = TRUE,
       !.openedBy = "onConnect",
       !.lastHandler = "onConnect"]
  /\ UNCHANGED <<pageVars, written, layoutVars, dialogVars>>
  /\ UNCHANGED <<localStorage, pending, openedWith>>

\* The fields of the open dialog; the two Selects offer the current nodes.
SetTransitionName(value) ==
  /\ builder.showEdgeDialog
  /\ builder' = [builder EXCEPT !.edgeFormData.transitionName = value,
                                !.lastHandler = "setEdgeFormData"]
  /\ UNCHANGED <<pageVars, written, layoutVars, dialogVars>>
  /\ UNCHANGED <<localStorage, pending, openedWith>>

SetActor(value) ==
  /\ builder.showEdgeDialog
  /\ builder' = [builder EXCEPT !.edgeFormData.actor = value,
                                !.lastHandler = "setEdgeFormData"]
  /\ UNCHANGED <<pageVars, written, layoutVars, dialogVars>>
  /\ UNCHANGED <<localStorage, pending, openedWith>>

SetSource(value) ==
  /\ builder.showEdgeDialog
  /\ value \in BuilderNodeIds
  /\ builder' = [builder EXCEPT !.edgeFormData.source = value,
                                !.lastHandler = "setEdgeFormData"]
  /\ UNCHANGED <<pageVars, written, layoutVars, dialogVars>>
  /\ UNCHANGED <<localStorage, pending, openedWith>>

SetTarget(value) ==
  /\ builder.showEdgeDialog
  /\ value \in BuilderNodeIds
  /\ builder' = [builder EXCEPT !.edgeFormData.target = value,
                                !.lastHandler = "setEdgeFormData"]
  /\ UNCHANGED <<pageVars, written, layoutVars, dialogVars>>
  /\ UNCHANGED <<localStorage, pending, openedWith>>

updateAction(index, value) ==
  /\ builder.showEdgeDialog
  /\ index \in 1..Len(builder.edgeFormData.actions)
  /\ builder' = [builder EXCEPT
       !.edgeFormData.actions = [i \in 1..Len(@) |->
                                   IF i = index THEN value ELSE @[i]],
       !.lastHandler = "setEdgeFormData"]
  /\ UNCHANGED <<pageVars, written, layoutVars, dialogVars>>
  /\ UNCHANGED <<localStorage, pending, openedWith>>

\* addEdge: the dialog's button, labelled Add Transition or Update
\* Transition.
addEdge ==
  /\ builder.showEdgeDialog
  /\ builder.edgeFormData.source # ""
  /\ builder.edgeFormData.target # ""
  /\ Trim(builder.edgeFormData.transitionName) # ""
  /\ DateNow <= MaxNow
  /\ LET form == builder.edgeFormData
         newEdge ==
           [id |-> ToString(DateNow), source |-> form.source,
            target |-> form.target, label |-> form.transitionName,
            actor |-> form.actor,
            actions |-> SelectSeq(form.actions, NonBlankAction),
            transitionName |-> form.transitionName]
     IN  builder' = [builder EXCEPT
           !.edges = Append(@, newEdge),
           !.edgeFormData = EdgeFormEmpty,
           !.showEdgeDialog = FALSE,
           !.now = DateNow,
           !.lastHandler = "addEdge"]
  /\ UNCHANGED <<pageVars, written, layoutVars, dialogVars>>
  /\ UNCHANGED <<localStorage, pending, openedWith>>

\* editEdge(selectedEdge): the Edit button of the selected transition.
editEdge ==
  /\ ~builder.showEdgeDialog
  /\ builder.selectedEdge \in BuilderEdgeIds
  /\ LET edge == EdgeFound(builder.selectedEdge)
     IN  builder' = [builder EXCEPT
           !.edgeFormData =
              [transitionName |-> edge.transitionName,
               actor |-> edge.actor,
               actions |-> IF Len(edge.actions) > 0 THEN edge.actions
                           ELSE <<"">>,
               source |-> edge.source, target |-> edge.target],
           !.isEditingEdge = TRUE,
           !.showEdgeDialog = TRUE,
           !.openedBy = "editEdge",
           !.lastHandler = "editEdge"]
  /\ UNCHANGED <<pageVars, written, layoutVars, dialogVars>>
  /\ UNCHANGED <<localStorage, pending, openedWith>>

deleteEdge ==
  /\ ~builder.showEdgeDialog
  /\ builder.selectedEdge # NoSelection
  /\ LET Others(edge) == edge.id # builder.selectedEdge
     IN  builder' = [builder EXCEPT
           !.edges = SelectSeq(@, Others),
           !.selectedEdge = NoSelection,
           !.lastHandler = "deleteEdge"]
  /\ UNCHANGED <<pageVars, written, layoutVars, dialogVars>>
  /\ UNCHANGED <<localStorage, pending, openedWith>>

BuilderClearAll ==
  /\ ~builder.showEdgeDialog
  /\ builder' = [builder EXCEPT
       !.nodes = <<>>, !.edges = <<>>,
       !.selectedNode = NoSelection, !.selectedEdge = NoSelection,
       !.selectedGraphId = "",
       !.lastHandler = "clearAll"]
  /\ UNCHANGED <<pageVars, written, layoutVars, dialogVars>>
  /\ UNCHANGED <<localStorage, pending, openedWith>>

saveGraph ==
  /\ ~builder.showEdgeDialog
  /\ Len(builder.nodes) # 0
  /\ Len(builder.storedGraphs) < MaxGraphs
  /\ DateNow <= MaxNow
  /\ builder' = [builder EXCEPT
       !.storedGraphs = Append(@, [id |-> ToString(DateNow),
                                   nodes |-> builder.nodes,
                                   edges |-> builder.edges]),
       !.selectedGraphId = ToString(DateNow),
       !.now = DateNow,
       !.lastHandler = "saveGraph"]
  /\ UNCHANGED <<pageVars, written, layoutVars, dialogVars>>
  /\ UNCHANGED <<localStorage, pending, openedWith>>

loadGraph(graphId) ==
  /\ ~builder.showEdgeDialog
  /\ graphId \in BuilderGraphIds
  /\ LET graph == GraphFound(graphId)
     IN  builder' = [builder EXCEPT
           !.nodes = graph.nodes, !.edges = graph.edges,
           !.selectedGraphId = graphId,
           !.selectedNode = NoSelection, !.selectedEdge = NoSelection,
           !.lastHandler = "loadGraph"]
  /\ UNCHANGED <<pageVars, written, layoutVars, dialogVars>>
  /\ UNCHANGED <<localStorage, pending, openedWith>>

NowValues == {ToString(n) : n \in 1..MaxNow}

NextBuilder ==
  \/ \E label \in NodeLabels : AddNode(label)
  \/ \E nodeId \in NowValues : OnNodeClick(nodeId)
  \/ \E edgeId \in NowValues : OnEdgeClick(edgeId)
  \/ DeleteNode
  \/ OpenEdgeDialog
  \/ CancelEdgeDialog
  \/ \E source \in NowValues, target \in NowValues : OnConnect(source, target)
  \/ \E value \in NamesTyped : SetTransitionName(value)
  \/ \E value \in ActorsChosen : SetActor(value)
  \/ \E value \in NowValues : SetSource(value)
  \/ \E value \in NowValues : SetTarget(value)
  \/ \E value \in ActionNames : updateAction(1, value)
  \/ addEdge
  \/ editEdge
  \/ deleteEdge
  \/ BuilderClearAll
  \/ saveGraph
  \/ \E graphId \in NowValues : loadGraph(graphId)

SpecBuilder == Init /\ [][NextBuilder]_vars


\* ------------------------------------------------------------------
\* Properties of the graph builder
\* ------------------------------------------------------------------

\* The step in which the button of the transition dialog is pressed with a
\* complete form, the dialog having been opened by Edit on the selected
\* transition.
EditConfirmed ==
  /\ builder.showEdgeDialog
  /\ builder.openedBy = "editEdge"
  /\ builder.selectedEdge \in BuilderEdgeIds
  /\ builder'.lastHandler = "addEdge"
  /\ builder'.now # builder.now

\* C22: confirming the transition dialog after it was opened by Edit on the
\* selected transition changes that transition in place: the number of edges
\* is unchanged, and the selected edge carries the edited name, actor and
\* actions.
C22_EditInPlace ==
  [][EditConfirmed =>
       /\ Len(builder'.edges) = Len(builder.edges)
       /\ \A i \in 1..Len(builder'.edges) :
            builder'.edges[i].id = builder.selectedEdge =>
              /\ builder'.edges[i].transitionName
                   = builder.edgeFormData.transitionName
              /\ builder'.edges[i].actor = builder.edgeFormData.actor
              /\ builder'.edges[i].actions
                   = SelectSeq(builder.edgeFormData.actions, NonBlankAction)]_vars

\* What the button does: the edges there were are all kept as they were, and
\* one edge with a new id, made from the form, is added after them.
EditAddsEdge ==
  [][EditConfirmed =>
       /\ Len(builder'.edges) = Len(builder.edges) + 1
       /\ SubSeq(builder'.edges, 1, Len(builder.edges)) = builder.edges
       /\ builder'.edges[Len(builder'.edges)].id \notin BuilderEdgeIds
       /\ builder'.edges[Len(builder'.edges)].transitionName
            = builder.edgeFormData.transitionName]_vars

\* An edited transition has been confirmed: the transition that was selected
\* and a second one are in the list.
EditedTwice ==
  /\ builder.lastHandler = "addEdge"
  /\ builder.openedBy = "editEdge"
  /\ Len(builder.edges) = 2
  /\ builder.edges[1].id = builder.selectedEdge
  /\ builder.edges[2].transitionName # builder.edges[1].transitionName


IdsOf(nodeList) == {nodeList[i].id : i \in 1..Len(nodeList)}
EdgesJoin(nodeList, edgeList) ==
  \A i \in 1..Len(edgeList) :
    /\ edgeList[i].source \in IdsOf(nodeList)
    /\ edgeList[i].target \in IdsOf(nodeList)

\* C28: after any sequence of add-state, delete-state, add-transition,
\* load-graph and clear-all, with the transition dialog opened, filled and
\* cancelled in between, every edge's source and target is the id of a node
\* currently in the node list.
C28_EdgesJoinNodes == EdgesJoin(builder.nodes, builder.edges)

\* What the handlers do: only the button of the transition dialog adds an
\* edge with an end that is no node; no other handler breaks the property
\* for the canvas or for a stored graph.
StoredGraphsJoin ==
  \A g \in 1..Len(builder.storedGraphs) :
    EdgesJoin(builder.storedGraphs[g].nodes, builder.storedGraphs[g].edges)
OnlyAddEdgeBreaks ==
  [][(C28_EdgesJoinNodes /\ StoredGraphsJoin
        /\ builder'.lastHandler # "addEdge")
       => (C28_EdgesJoinNodes /\ StoredGraphsJoin)']_vars

\* A transition has been added from a form filled before its state was
\* deleted.
EdgeOfDeletedNode ==
  /\ builder.lastHandler = "addEdge"
  /\ builder.nodes = <<>>
  /\ Len(builder.edges) = 1
  /\ builder.edges[1].source = "1"
  /\ builder.edges[1].target = "1"


\* ------------------------------------------------------------------
\* Properties of the layers
\* ------------------------------------------------------------------

\* The nodes of the finished layout that are on layer number layer.
OnLayer(layer) ==
  {graphData.nodes[n].id : n \in
     {m \in DOMAIN graphData.nodes :
        graphData.nodes[m].y = LayerY(processData, layer)}}

\* C23: the nodes on layer 0 are exactly the roots: the synthetic start state
\* alone when the model has one, and else (a modern process without entry
\* transition, or a legacy process) exactly the states no transition leads
\* to.
C23_LayerZeroAreRoots ==
  pc = "done" => OnLayer(0) = Roots(processData)

\* What the layout does: the nodes on layer 0 are the nodes among the states
\* the loop starts from, which in the modern shape is the synthetic start
\* state whether the model has it or not.
LayerZeroIsTraversalStart ==
  pc = "done" =>
    OnLayer(0) = TraversalStart(processData)
                   \cap {graphData.nodes[n].id : n \in DOMAIN graphData.nodes}

\* A modern process without entry transition has been laid out: it has a
\* root, and nothing is on layer 0.
RootBelowLayerZero ==
  /\ pc = "done"
  /\ processData.format = "v3"
  /\ Roots(processData) # {}
  /\ INITIAL \notin Roots(processData)
  /\ OnLayer(0) = {}


\* The states the traversal of a process reaches, and the greatest of their
\* layers (the greatest of no layers is -Infinity).
Reached(process) == Within(process, TraversalStart(process), Farthest)
MaxReachedLayer(process) ==
  IF Reached(process) = {} THEN NegInfinity
  ELSE MaxOf({Distance(process, TraversalStart(process), s) :
                s \in Reached(process)})
Unreached ==
  {n \in DOMAIN graphData.nodes : graphData.nodes[n].id \notin Reached(processData)}

\* C24: every state the traversal never reaches is on the layer that is the
\* greatest layer of the reached states plus one, and so all the unreached
\* states of a graph are on one layer.
C24_UnreachedOneBelow ==
  pc = "done" =>
    /\ \A n \in Unreached :
         graphData.nodes[n].y =
           IF Reached(processData) = {} THEN NegInfinity
           ELSE LayerY(processData, MaxReachedLayer(processData) + 1)
    /\ \A m \in Unreached : \A n \in Unreached :
         graphData.nodes[m].y = graphData.nodes[n].y

\* A process has been laid out in which the traversal reaches a state on
\* layer 1 and misses two states, which are on layer 2.
C24_Witness ==
  /\ pc = "done"
  /\ MaxReachedLayer(processData) = 1
  /\ \E m \in Unreached : \E n \in Unreached :
       /\ graphData.nodes[m].id # graphData.nodes[n].id
       /\ graphData.nodes[m].y = LayerY(processData, 2)
       /\ graphData.nodes[n].y = LayerY(processData, 2)


\* The loop state a layout function of process starts from.
BfsInit(process) ==
  IF process.format = "v3" THEN BfsInitV3
  ELSE BfsInitV2(process.transitions, process.states)

RECURSIVE DiscoveryRun(_, _, _)
\* The states in the order in which they get their level: those that have
\* one before the loop, then, round by round, those that a round pushes on
\* the queue.
DiscoveryRun(process, st, order) ==
  IF st.queue = <<>> THEN order
  ELSE LET next == Round(process, st)
       IN  DiscoveryRun(process, next,
                        order \o SubSeq(next.queue, Len(st.queue), Len(next.queue)))
DiscoveryOrder(process) ==
  DiscoveryRun(process, BfsInit(process), BfsInit(process).queue)

\* Node m and node n are nodes of two discovered states on one layer.
LayerMates(m, n) ==
  /\ IndexOf(DiscoveryOrder(processData), graphData.nodes[m].id) >= 0
  /\ IndexOf(DiscoveryOrder(processData), graphData.nodes[n].id) >= 0
  /\ graphData.nodes[m].y = graphData.nodes[n].y

\* C25: within a layer the nodes are in the order in which the traversal
\* first discovered their states: of two states on one layer, the one
\* discovered first has the smaller x.
C25_DiscoveryOrder ==
  pc = "done" =>
    \A m \in DOMAIN graphData.nodes : \A n \in DOMAIN graphData.nodes :
      (/\ LayerMates(m, n)
       /\ IndexOf(DiscoveryOrder(processData), graphData.nodes[m].id)
            < IndexOf(DiscoveryOrder(processData), graphData.nodes[n].id))
        => graphData.nodes[m].x < graphData.nodes[n].x

\* What the layout does: within a layer the nodes of discovered states are in
\* the order of the node list, which is the order of :process/states in the
\* legacy shape and the order of first mention in the transitions in the
\* modern shape.
C25_ListOrder ==
  pc = "done" =>
    \A m \in DOMAIN graphData.nodes : \A n \in DOMAIN graphData.nodes :
      (/\ LayerMates(m, n)
       /\ IndexOf(LayoutStatesOf(processData), graphData.nodes[m].id)
            < IndexOf(LayoutStatesOf(processData), graphData.nodes[n].id))
        => graphData.nodes[m].x < graphData.nodes[n].x

\* A process has been laid out in which two states are on one layer and the
\* one the traversal discovered first comes later in the node list.
C25_Witness ==
  /\ pc = "done"
  /\ \E m \in DOMAIN graphData.nodes : \E n \in DOMAIN graphData.nodes :
       /\ LayerMates(m, n)
       /\ m < n
       /\ graphData.nodes[m].x < graphData.nodes[n].x
       /\ IndexOf(DiscoveryOrder(processData), graphData.nodes[n].id)
            < IndexOf(DiscoveryOrder(processData), graphData.nodes[m].id)


\* ------------------------------------------------------------------
\* Properties of the x coordinates
\* ------------------------------------------------------------------

SpacingX(process) == IF process.format = "v3" THEN 280 ELSE 250
LayersUsed == {graphData.nodes[n].y : n \in DOMAIN graphData.nodes}
NodesAt(y) == {n \in DOMAIN graphData.nodes : graphData.nodes[n].y = y}
\* Twice the x of the k places of a layer centred on the axis at axis2 / 2.
Centred2(axis2, k, spacing) == {axis2 + (2 * i - (k - 1)) * spacing : i \in 0..(k - 1)}
Axes2 == {100 * a : a \in 0..20}

\* C26: in both shapes the k nodes of a layer are at
\* x = axisX + (i - (k-1)/2) * spacingX for i = 0 .. k-1, with one axisX for
\* all the layers of the graph.
C26_CentredOnOneAxis ==
  pc = "done" =>
    \E axis2 \in Axes2 : \A y \in LayersUsed :
      /\ \A m \in NodesAt(y) : \A n \in NodesAt(y) :
           m # n => graphData.nodes[m].x # graphData.nodes[n].x
      /\ {2 * graphData.nodes[n].x : n \in NodesAt(y)}
           = Centred2(axis2, Cardinality(NodesAt(y)), SpacingX(processData))

Discovered(n) ==
  IndexOf(DiscoveryOrder(processData), graphData.nodes[n].id) >= 0
\* The 0-based place of node n among the nodes of its layer, a repeated
\* state counting at its first node.
PlaceInLayer(n) ==
  LET first == MinOf({m \in DOMAIN graphData.nodes :
                       graphData.nodes[m].id = graphData.nodes[n].id})
  IN  Cardinality({m \in NodesAt(graphData.nodes[n].y) : m < first})
\* What the layout does.  In the modern shape the discovered states of a
\* layer are centred on x = 400.  In the legacy shape the discovered states
\* of a layer are at 100, 350, 600, ...: every layer begins at x = 100 and
\* is not centred.  A state that was not discovered is at index 0 of a layer
\* of its own: x = 400 or x = 100.
XsAsPlaced ==
  pc = "done" =>
    \A n \in DOMAIN graphData.nodes :
      /\ ~Discovered(n) =>
           graphData.nodes[n].x = IF processData.format = "v3" THEN 400 ELSE 100
      /\ Discovered(n) =>
           LET k == Cardinality(NodesAt(graphData.nodes[n].y))
           IN  graphData.nodes[n].x =
                 IF processData.format = "v3"
                 THEN 400 + PlaceInLayer(n) * 280 - (k - 1) * 140
                 ELSE 100 + PlaceInLayer(n) * 250

\* A legacy process has been laid out with one state on layer 0 and two on
\* layer 1: the layers are centred on x = 100 and on x = 225.
LayersOffAxis ==
  /\ pc = "done"
  /\ processData.format = "v2"
  /\ {graphData.nodes[n].x : n \in NodesAt(50)} = {100}
  /\ {graphData.nodes[n].x : n \in NodesAt(200)} = {100, 350}
  /\ Cardinality(NodesAt(50)) = 1
  /\ Cardinality(NodesAt(200)) = 2


\* ------------------------------------------------------------------
\* Properties of the rounds of the loop
\* ------------------------------------------------------------------

\* No state is in the queue twice, and no state that was expanded is in the
\* queue: a state leaves the queue only to be expanded, so this is to say
\* that no state is put on the queue a second time.
EnqueuedOnce ==
  pc = "bfs" =>
    /\ \A i \in DOMAIN bfs.queue : \A j \in DOMAIN bfs.queue :
         bfs.queue[i] = bfs.queue[j] => i = j
    /\ \A i \in DOMAIN bfs.queue : bfs.queue[i] \notin bfs.visited

\* A round of the loop.
IsRound == pc = "bfs" /\ bfs.queue # <<>> /\ bfs' # bfs

\* A round that takes an expanded state from the queue does nothing else; a
\* round that expands a state adds that state alone to visited.
ExpandedOnce ==
  IsRound =>
    IF Head(bfs.queue) \in bfs.visited
    THEN bfs'.levels = bfs.levels /\ bfs'.queue = Tail(bfs.queue)
         /\ bfs'.visited = bfs.visited
    ELSE bfs'.visited = bfs.visited \cup {Head(bfs.queue)}

\* A state that has a level keeps it in every round, and is placed on it.
LevelKept ==
  /\ IsRound =>
       \A s \in DOMAIN bfs.levels :
         s \in DOMAIN bfs'.levels /\ bfs'.levels[s] = bfs.levels[s]
  /\ (pc = "bfs" /\ pc' = "done") =>
       \A n \in DOMAIN graphData'.nodes :
         graphData'.nodes[n].id \in DOMAIN bfs.levels =>
           graphData'.nodes[n].y
             = LayerY(processData, bfs.levels[graphData'.nodes[n].id])

\* C27: during the layer assignment every state is put on the queue at most
\* once and expanded at most once, and a state that has a layer keeps it
\* whatever edge leads to it later (a back-edge such as c -> a).
C27_OnceAndKept ==
  []EnqueuedOnce /\ [][ExpandedOnce /\ LevelKept]_vars

\* What the loop does: a state is expanded once and keeps its layer, always;
\* it is put on the queue once when the states the queue starts with are
\* distinct, which the declared states of a legacy process need not be.
StartsDistinct ==
  \A i \in DOMAIN BfsInit(processData).queue :
    \A j \in DOMAIN BfsInit(processData).queue :
      BfsInit(processData).queue[i] = BfsInit(processData).queue[j] => i = j
OnceAndKeptFromDistinct ==
  [](StartsDistinct => EnqueuedOnce) /\ [][ExpandedOnce /\ LevelKept]_vars

\* The queue of a legacy process starts with a state twice.
EnqueuedTwice ==
  /\ pc = "bfs"
  /\ processData.format = "v2"
  /\ Len(bfs.queue) >= 2
  /\ bfs.queue[1] = bfs.queue[2]

\* A layout is finished in which an edge leads back to a state that had its
\* layer: b is on layer 2 and has an edge to a, and a is on layer 1.
BackEdgeKeptLayer ==
  /\ pc = "done"
  /\ processData.format = "v3"
  /\ <<"a">> \in Successors(processData, {<<"b">>})
  /\ bfs.levels = (INITIAL :> 0) @@ (<<"a">> :> 1) @@ (<<"b">> :> 2)


\* ------------------------------------------------------------------
\* Properties of the empty transitions vector
\* ------------------------------------------------------------------

EmptyVector == written \in DetailedEmpty
EmptyGraph == [nodes |-> <<>>, edges |-> <<>>]

\* C30: a modern document whose :transitions vector is there and balanced is
\* accepted also when the vector is empty: visualizing it gives no error and
\* the graph without nodes and without edges.
C30_EmptyVectorAccepted ==
  (Visualized /\ EmptyVector) => (error = "" /\ graphData = EmptyGraph)

\* What parseEdn does: the vector with nothing at all between its brackets
\* is refused as missing; the vector with white space between its brackets
\* is accepted and gives the empty graph.
EmptyVectorByContent ==
  (Visualized /\ EmptyVector) =>
    IF written.style = "tight"
    THEN /\ graphData = Null
         /\ error = "Failed to parse EDN: Missing or invalid :transitions"
    ELSE error = "" /\ graphData = EmptyGraph

\* The document {:format :v3 :transitions []} has been visualized and
\* refused.
EmptyVectorRefused ==
  /\ Visualized /\ EmptyVector /\ written.style = "tight"
  /\ graphData = Null /\ error # ""

====
